---- MODULE Spec2Model ----
(***************************************************************************)
(* Indicator synchronization engine of investment-macro-analyzer:         *)
(* the registry, the recursive orchestrator (calculate_and_save), the      *)
(* store operations it relies on (db.rs) and the canary + batch protocol   *)
(* of the scheduler (run_pending_updates).                                 *)
(*                                                                         *)
(* Time is counted in seconds.  f64 values are modelled as integers.       *)
(* Error messages are sequences of text fragments; `contains` looks for a  *)
(* fragment.  Store operations are assumed to return without an error.     *)
(***************************************************************************)
EXTENDS Integers, Sequences, FiniteSets, TLC

(***************************************************************************)
(* Bounds of the model                                                     *)
(***************************************************************************)
MaxRuns == 2
MaxTicks == 1
MaxHostCalls == 2
TickStep == 3600
StaleNow == 200000
JitterStep == 250
MaxPoints == 2
MaxFetches == 2

(***************************************************************************)
(* Program constants                                                       *)
(***************************************************************************)
BATCH_SIZE == 10
DefaultRefreshMinutes == 1440
SecondsPerMinute == 60
FredMinMs == 1500
FredMaxMs == 3000
TiingoMinMs == 1000
TiingoMaxMs == 2000
ExchangeMs == 100
DefaultMs == 100
HourLimit == 450
DayLimit == 950

NoTime == -1
NoSymbol == ""
NoMessage == << >>

Runs == {1}

(***************************************************************************)
(* Registry (indicators/registry.rs): a representative part of the static  *)
(* table, in table order.                                                  *)
(***************************************************************************)
INDICATORS ==
  << [slug |-> "buffett_indicator",  source |-> "Calculated", category |-> "Valuation", source_symbol |-> NoSymbol],
     [slug |-> "yield_curve_10y_2y", source |-> "Calculated", category |-> "UsMacro",  source_symbol |-> NoSymbol],
     [slug |-> "yield_curve_10y_3m", source |-> "Calculated", category |-> "UsMacro",  source_symbol |-> NoSymbol],
     [slug |-> "financial_stress",   source |-> "Calculated", category |-> "Risk",     source_symbol |-> NoSymbol],
     [slug |-> "us_market_cap",      source |-> "Fred",       category |-> "Valuation", source_symbol |-> "NCBEILQ027S"],
     [slug |-> "us_10y",             source |-> "Fred",       category |-> "UsMacro",  source_symbol |-> "DGS10"],
     [slug |-> "us_2y",              source |-> "Fred",       category |-> "UsMacro",  source_symbol |-> "DGS2"],
     [slug |-> "us_3m",              source |-> "Fred",       category |-> "UsMacro",  source_symbol |-> "DGS3MO"],
     [slug |-> "gdp",                source |-> "Fred",       category |-> "UsMacro",  source_symbol |-> "GDP"],
     [slug |-> "vxn",                source |-> "Manual",     category |-> "Risk",     source_symbol |-> NoSymbol],
     [slug |-> "crypto_fear_greed",  source |-> "Alternative", category |-> "Crypto",  source_symbol |-> NoSymbol],
     [slug |-> "sector_xlk",         source |-> "Tiingo",     category |-> "Internal", source_symbol |-> "xlk"] >>

RegistrySlugs == { INDICATORS[i].slug : i \in DOMAIN INDICATORS }

\* slugs that are not registry keys but reach the orchestrator
UnknownSlugs == { "STLFSI4", "DGS10X", "my_custom_thing", "BTC-USD", "btc-usd" }

AllSlugs == RegistrySlugs \cup UnknownSlugs

\* the characters of the slugs the fallback heuristic inspects
SlugChars(slug) ==
  CASE slug = "STLFSI4"         -> << "S","T","L","F","S","I","4" >>
    [] slug = "DGS10X"          -> << "D","G","S","1","0","X" >>
    [] slug = "my_custom_thing" -> << "m","y","_","c","u","s","t","o","m","_","t","h","i","n","g" >>
    [] slug = "BTC-USD"         -> << "B","T","C","-","U","S","D" >>
    [] slug = "btc-usd"         -> << "b","t","c","-","u","s","d" >>
    [] OTHER                    -> << "a" >>

LowercaseLetters ==
  { "a","b","c","d","e","f","g","h","i","j","k","l","m",
    "n","o","p","q","r","s","t","u","v","w","x","y","z" }

is_lowercase(c) == c \in LowercaseLetters

HasMetadata(slug) == \E i \in DOMAIN INDICATORS : INDICATORS[i].slug = slug

\* Registry::get_metadata (only used where HasMetadata holds)
get_metadata(slug) ==
  INDICATORS[CHOOSE i \in DOMAIN INDICATORS : INDICATORS[i].slug = slug]

\* Registry::get_calculator
HasCalculator(slug) ==
  slug \in { "buffett_indicator", "yield_curve_10y_2y", "yield_curve_10y_3m",
             "financial_stress" }

\* CalculatedIndicator::required_inputs
required_inputs(slug) ==
  CASE slug = "buffett_indicator"  -> << "us_market_cap", "gdp" >>
    [] slug = "yield_curve_10y_2y" -> << "us_10y", "us_2y" >>
    [] slug = "yield_curve_10y_3m" -> << "us_10y", "us_3m" >>
    [] slug = "financial_stress"   -> << "STLFSI4" >>
    [] OTHER                       -> << >>

\* variant: the listing holds every entry of the table
get_available_indicators_All == INDICATORS

\* Registry::get_available_indicators
get_available_indicators ==
  LET NotInternal(m) == m.category # "Internal" IN SelectSeq(INDICATORS, NotInternal)

(***************************************************************************)
(* Time series and the store (db.rs)                                       *)
(***************************************************************************)
EmptySeries == << >>

DataPoint(t, v) == [timestamp |-> t, value |-> v]

\* variant: a plain INSERT, without the conflict clause
UpsertPoint_InsertOnly(series, p) == Append(series, p)

\* variant: ON CONFLICT (indicator_id, timestamp) DO NOTHING
UpsertPoint_DoNothing(series, p) ==
  IF \E i \in DOMAIN series : series[i].timestamp = p.timestamp
  THEN series
  ELSE Append(series, p)

\* one INSERT ... ON CONFLICT (indicator_id, timestamp) DO UPDATE SET value
UpsertPoint(series, p) ==
  IF \E i \in DOMAIN series : series[i].timestamp = p.timestamp
  THEN [i \in DOMAIN series |->
          IF series[i].timestamp = p.timestamp
          THEN [series[i] EXCEPT !.value = p.value]
          ELSE series[i]]
  ELSE Append(series, p)

RECURSIVE UpsertAll(_, _)
UpsertAll(series, data) ==
  IF data = << >> THEN series
  ELSE UpsertAll(UpsertPoint(series, Head(data)), Tail(data))

Minimum(S) == CHOOSE x \in S : \A y \in S : x <= y

RECURSIVE SortedKeys(_)
SortedKeys(S) ==
  IF S = {} THEN << >>
  ELSE << Minimum(S) >> \o SortedKeys(S \ {Minimum(S)})

RECURSIVE RowsInOrder(_, _)
RowsInOrder(series, keys) ==
  IF keys = << >> THEN << >>
  ELSE LET HasKey(p) == p.timestamp = Head(keys)
       IN  SelectSeq(series, HasKey) \o RowsInOrder(series, Tail(keys))

\* the rows of one series, ORDER BY timestamp ASC
SeriesRows(series) ==
  RowsInOrder(series, SortedKeys({ series[i].timestamp : i \in DOMAIN series }))

NewRow(source, category) ==
  [source |-> source, category |-> category, refresh_interval |-> "",
   update_status |-> "idle", error_message |-> NoMessage, last_updated_at |-> NoTime]

\* variant: the row of the indicator is written again on every save
\* (INSERT OR REPLACE instead of the SELECT before the INSERT)
save_historical_data_ReplaceRow(db, indicator_slug, data, source, category) ==
  LET exists == indicator_slug \in DOMAIN db.indicators
      order  == IF exists THEN db.rowOrder ELSE Append(db.rowOrder, indicator_slug)
      rows   == IF exists
                THEN [db.indicators EXCEPT ![indicator_slug] = NewRow(source, category)]
                ELSE db.indicators @@ (indicator_slug :> NewRow(source, category))
  IN  [rowOrder |-> order,
       indicators |-> rows,
       historical_data |->
         [db.historical_data EXCEPT ![indicator_slug] = UpsertAll(@, data)]]

\* db::save_historical_data; db is [rowOrder, indicators, historical_data]
save_historical_data(db, indicator_slug, data, source, category) ==
  LET exists == indicator_slug \in DOMAIN db.indicators
      order  == IF exists THEN db.rowOrder ELSE Append(db.rowOrder, indicator_slug)
      rows   == IF exists THEN db.indicators
                ELSE db.indicators @@ (indicator_slug :> NewRow(source, category))
  IN  [rowOrder |-> order,
       indicators |-> rows,
       historical_data |->
         [db.historical_data EXCEPT ![indicator_slug] = UpsertAll(@, data)]]

\* db::get_historical_data
get_historical_data(db, indicator_slug) ==
  IF indicator_slug \in DOMAIN db.indicators
  THEN SeriesRows(db.historical_data[indicator_slug])
  ELSE << >>

\* variant: marking a row updating stamps last_updated_at as well
update_indicator_status_StampOnUpdating(rows, indicator_slug, status, error, now) ==
  IF indicator_slug \notin DOMAIN rows THEN rows
  ELSE IF status \in { "success", "updating" }
       THEN [rows EXCEPT ![indicator_slug].update_status = status,
                         ![indicator_slug].error_message = error,
                         ![indicator_slug].last_updated_at = now]
       ELSE [rows EXCEPT ![indicator_slug].update_status = status,
                         ![indicator_slug].error_message = error]

\* variant: a failure stamps last_updated_at as well
update_indicator_status_StampOnError(rows, indicator_slug, status, error, now) ==
  IF indicator_slug \notin DOMAIN rows THEN rows
  ELSE IF status \in { "success", "error" }
       THEN [rows EXCEPT ![indicator_slug].update_status = status,
                         ![indicator_slug].error_message = error,
                         ![indicator_slug].last_updated_at = now]
       ELSE [rows EXCEPT ![indicator_slug].update_status = status,
                         ![indicator_slug].error_message = error]

\* db::update_indicator_status
update_indicator_status(rows, indicator_slug, status, error, now) ==
  IF indicator_slug \notin DOMAIN rows THEN rows
  ELSE IF status = "success"
       THEN [rows EXCEPT ![indicator_slug].update_status = status,
                         ![indicator_slug].error_message = error,
                         ![indicator_slug].last_updated_at = now]
       ELSE [rows EXCEPT ![indicator_slug].update_status = status,
                         ![indicator_slug].error_message = error]

\* refresh_str.trim_end_matches('m').parse().unwrap_or(1440)
ParseRefresh(refresh_str) ==
  CASE refresh_str = "60m"   -> 60
    [] refresh_str = "1440m" -> 1440
    [] OTHER                 -> DefaultRefreshMinutes

\* chrono Duration::num_minutes: whole minutes, truncated toward zero
num_minutes(seconds) ==
  IF seconds >= 0 THEN seconds \div SecondsPerMinute
  ELSE -((-seconds) \div SecondsPerMinute)

\* variant: the comparison is strict
IsStaleRow_Strict(row, now) ==
  IF row.last_updated_at = NoTime THEN TRUE
  ELSE num_minutes(now - row.last_updated_at) > ParseRefresh(row.refresh_interval)

IsStaleRow(row, now) ==
  IF row.last_updated_at = NoTime THEN TRUE
  ELSE num_minutes(now - row.last_updated_at) >= ParseRefresh(row.refresh_interval)

\* db::get_stale_indicators: (slug, source) of the stale rows, in row order
get_stale_indicators(order, rows, now) ==
  LET Stale(slug) == IsStaleRow(rows[slug], now)
      slugs == SelectSeq(order, Stale)
  IN  [i \in 1..Len(slugs) |-> << slugs[i], rows[slugs[i]].source >>]

(***************************************************************************)
(* Fetch collaborators: what a provider answers is chosen by the           *)
(* environment (an oracle gives the outcome of the fetch of each slug).    *)
(***************************************************************************)
SeriesX == << DataPoint(1, 10), DataPoint(2, 12) >>
SeriesY == << DataPoint(1, 4), DataPoint(2, 4) >>

SeriesCap == << DataPoint(1, 2000), DataPoint(2, 3000) >>
SeriesGdp == << DataPoint(1, 1), DataPoint(2, 2) >>

\* what a provider returns for a slug when it answers
ProviderData(slug) ==
  CASE slug = "us_2y"          -> { SeriesY }
    [] slug = "us_market_cap"  -> { SeriesCap }
    [] slug = "gdp"            -> { SeriesGdp }
    [] OTHER                   -> { SeriesX }

\* error texts of the fetchers (fred.rs:68, tiingo.rs:62), as fragments
FetchCauses ==
  { << "FRED API Error:", "500", "Internal Server Error" >>,
    << "FRED API Error:", "429", "Too Many Requests" >>,
    << "FRED API Error:", "403", "Forbidden" >>,
    << "FRED API Error:", "400", "Bad Request" >>,
    << "Tiingo Hourly", "Limit Reached", "(450/500). Protection active." >> }

FetchOutcomes(slug) ==
  { [ok |-> TRUE, data |-> d, cause |-> NoMessage] : d \in ProviderData(slug) } \cup
  { [ok |-> FALSE, data |-> << >>, cause |-> c] : c \in FetchCauses }

\* str::contains on a message
contains(msg, fragment) == \E i \in DOMAIN msg : msg[i] = fragment

Ok(db, fetches, data) ==
  [ok |-> TRUE, data |-> data, err |-> NoMessage, db |-> db, fetches |-> fetches]

Err(db, fetches, msg) ==
  [ok |-> FALSE, data |-> << >>, err |-> msg, db |-> db, fetches |-> fetches]

\* the source_name match of fetch_and_save_raw
SourceName(source_type) ==
  CASE source_type = "Fred"        -> "FRED"
    [] source_type = "Tiingo"      -> "Tiingo"
    [] source_type = "Binance"     -> "Binance"
    [] source_type = "Alternative" -> "Alternative"
    [] source_type = "Glassnode"   -> "Glassnode"
    [] source_type = "Manual"      -> "Manual"
    [] OTHER                       -> "Calculated"

FetchableSources == { "Fred", "Tiingo", "Binance", "Alternative" }

\* variant: the fetcher is asked for the slug, whatever the symbol
fetch_and_save_raw_SlugAsSymbol(db, slug, source_symbol, source_type, backfill, oracle, fetches) ==
  IF source_type = "Manual" THEN Ok(db, fetches, << >>)
  ELSE IF source_type \notin FetchableSources
  THEN Err(db, fetches, << "Source type not yet implemented for", slug >>)
  ELSE
    LET call == [provider |-> source_type, symbol |-> slug,
                 slug |-> slug, backfill |-> backfill]
        sent == Append(fetches, call)
        out  == oracle[slug]
    IN  IF ~out.ok
        THEN Err(db, sent, << "Fetch failed for", slug, source_symbol >> \o out.cause)
        ELSE Ok(save_historical_data(db, slug, out.data, SourceName(source_type), "Macro"),
                sent, out.data)

\* orchestrator::fetch_and_save_raw
fetch_and_save_raw(db, slug, source_symbol, source_type, backfill, oracle, fetches) ==
  IF source_type = "Manual" THEN Ok(db, fetches, << >>)
  ELSE IF source_type \notin FetchableSources
  THEN Err(db, fetches, << "Source type not yet implemented for", slug >>)
  ELSE
    LET call == [provider |-> source_type, symbol |-> source_symbol,
                 slug |-> slug, backfill |-> backfill]
        sent == Append(fetches, call)
        out  == oracle[slug]
    IN  IF ~out.ok
        THEN Err(db, sent, << "Fetch failed for", slug, source_symbol >> \o out.cause)
        ELSE Ok(save_historical_data(db, slug, out.data, SourceName(source_type), "Macro"),
                sent, out.data)

(***************************************************************************)
(* core/timeseries.rs and the calculators                                  *)
(***************************************************************************)
RECURSIVE AdvanceB_Strict(_, _, _)
\* variant: a point of B is taken only when it is earlier than date_a
AdvanceB_Strict(b_iter, date_a, last_b_val) ==
  IF b_iter # << >> /\ Head(b_iter).timestamp < date_a
  THEN AdvanceB_Strict(Tail(b_iter), date_a, [some |-> TRUE, v |-> Head(b_iter).value])
  ELSE [b_iter |-> b_iter, last_b_val |-> last_b_val]

\* the inner `while let Some(..) = b_iter.peek()` loop of align_series
RECURSIVE AdvanceB(_, _, _)
AdvanceB(b_iter, date_a, last_b_val) ==
  IF b_iter # << >> /\ Head(b_iter).timestamp <= date_a
  THEN AdvanceB(Tail(b_iter), date_a, [some |-> TRUE, v |-> Head(b_iter).value])
  ELSE [b_iter |-> b_iter, last_b_val |-> last_b_val]

RECURSIVE AlignLoop(_, _, _, _)
AlignLoop(a_iter, b_iter, last_b_val, result) ==
  IF a_iter = << >> THEN result
  ELSE LET a   == Head(a_iter)
           adv == AdvanceB(b_iter, a.timestamp, last_b_val)
       IN  AlignLoop(Tail(a_iter), adv.b_iter, adv.last_b_val,
                     IF adv.last_b_val.some
                     THEN Append(result, << a.timestamp, a.value, adv.last_b_val.v >>)
                     ELSE result)

\* timeseries::align_series (the method argument is ignored by the code)
align_series(series_a, series_b) ==
  AlignLoop(SeriesRows(UpsertAll(EmptySeries, series_a)),
            SeriesRows(UpsertAll(EmptySeries, series_b)),
            [some |-> FALSE, v |-> 0], << >>)

\* yield_curve::calculate_spread
calculate_spread(inputs) ==
  IF Len(inputs) < 2
  THEN [ok |-> FALSE, data |-> << >>, err |-> << "Spread calculation requires 2 inputs" >>]
  ELSE LET aligned == align_series(inputs[1], inputs[2])
       IN  [ok |-> TRUE,
            data |-> [i \in 1..Len(aligned) |->
                        DataPoint(aligned[i][1], aligned[i][2] - aligned[i][3])],
            err |-> NoMessage]

\* FinancialStress::calculate
financial_stress_calculate(inputs) ==
  IF inputs = << >>
  THEN [ok |-> FALSE, data |-> << >>, err |-> << "Missing input data (STLFSI4)" >>]
  ELSE [ok |-> TRUE, data |-> inputs[1], err |-> NoMessage]

\* BuffettIndicator::calculate: (market cap / 1000 / gdp) * 100, for a gdp
\* that is not 0 and values whose quotient is whole
buffett_calculate(inputs) ==
  IF Len(inputs) < 2
  THEN [ok |-> FALSE, data |-> << >>,
        err |-> << "Buffett Indicator requires 2 inputs: Market Cap and GDP" >>]
  ELSE IF inputs[1] = << >> \/ inputs[2] = << >>
  THEN [ok |-> FALSE, data |-> << >>, err |-> << "Empty input data for Buffett Indicator" >>]
  ELSE LET aligned == align_series(inputs[1], inputs[2])
       IN  [ok |-> TRUE,
            data |-> [i \in 1..Len(aligned) |->
                        DataPoint(aligned[i][1],
                                  (aligned[i][2] * 100) \div (1000 * aligned[i][3]))],
            err |-> NoMessage]

\* CalculatedIndicator::calculate of the calculator registered for slug
calculate(slug, inputs) ==
  IF slug = "financial_stress" THEN financial_stress_calculate(inputs)
  ELSE IF slug = "buffett_indicator" THEN buffett_calculate(inputs)
  ELSE calculate_spread(inputs)

(***************************************************************************)
(* Orchestrator (core/orchestrator.rs)                                     *)
(***************************************************************************)
RECURSIVE calculate_and_save(_, _, _, _, _, _)
RECURSIVE ResolveDependencies(_, _, _, _, _, _, _)
RECURSIVE ResolveDependencies_AlwaysFetch(_, _, _, _, _, _, _)
RECURSIVE ResolveDependencies_Reversed(_, _, _, _, _, _, _)
RECURSIVE ResolveDependencies_KeepGoing(_, _, _, _, _, _, _)

\* variant: after a dependency failed the later ones are still resolved, and
\* the failure is reported at the end of the loop
ResolveDependencies_KeepGoing(db, required_slugs, backfill, fetch_deps, oracle, fetches, inputs) ==
  IF required_slugs = << >>
  THEN [ok |-> TRUE, inputs |-> inputs, err |-> NoMessage, db |-> db, fetches |-> fetches]
  ELSE
    LET req_slug == Head(required_slugs)
        dep == IF fetch_deps
               THEN calculate_and_save(db, req_slug, backfill, TRUE, oracle, fetches)
               ELSE Ok(db, fetches, get_historical_data(db, req_slug))
        rest == ResolveDependencies_KeepGoing(dep.db, Tail(required_slugs), backfill,
                                              fetch_deps, oracle, dep.fetches,
                                              Append(inputs, dep.data))
    IN  IF dep.ok THEN rest
        ELSE [rest EXCEPT !.ok = FALSE, !.err = dep.err]

\* variant: the inputs are collected in the reverse of the declared order
ResolveDependencies_Reversed(db, required_slugs, backfill, fetch_deps, oracle, fetches, inputs) ==
  IF required_slugs = << >>
  THEN [ok |-> TRUE, inputs |-> inputs, err |-> NoMessage, db |-> db, fetches |-> fetches]
  ELSE
    LET req_slug == Head(required_slugs)
        dep == IF fetch_deps
               THEN calculate_and_save(db, req_slug, backfill, TRUE, oracle, fetches)
               ELSE Ok(db, fetches, get_historical_data(db, req_slug))
    IN  IF ~dep.ok
        THEN [ok |-> FALSE, inputs |-> inputs, err |-> dep.err,
              db |-> dep.db, fetches |-> dep.fetches]
        ELSE ResolveDependencies_Reversed(dep.db, Tail(required_slugs), backfill,
                                          fetch_deps, oracle, dep.fetches,
                                          << dep.data >> \o inputs)

\* variant: the dependencies are resolved recursively whatever fetch_deps says
ResolveDependencies_AlwaysFetch(db, required_slugs, backfill, fetch_deps, oracle, fetches, inputs) ==
  IF required_slugs = << >>
  THEN [ok |-> TRUE, inputs |-> inputs, err |-> NoMessage, db |-> db, fetches |-> fetches]
  ELSE
    LET req_slug == Head(required_slugs)
        dep == calculate_and_save(db, req_slug, backfill, TRUE, oracle, fetches)
    IN  IF ~dep.ok
        THEN [ok |-> FALSE, inputs |-> inputs, err |-> dep.err,
              db |-> dep.db, fetches |-> dep.fetches]
        ELSE ResolveDependencies_AlwaysFetch(dep.db, Tail(required_slugs), backfill,
                                             fetch_deps, oracle, dep.fetches,
                                             Append(inputs, dep.data))

\* the `for req_slug in required_slugs` loop of calculate_and_save
ResolveDependencies(db, required_slugs, backfill, fetch_deps, oracle, fetches, inputs) ==
  IF required_slugs = << >>
  THEN [ok |-> TRUE, inputs |-> inputs, err |-> NoMessage, db |-> db, fetches |-> fetches]
  ELSE
    LET req_slug == Head(required_slugs)
        dep == IF fetch_deps
               THEN calculate_and_save(db, req_slug, backfill, TRUE, oracle, fetches)
               ELSE Ok(db, fetches, get_historical_data(db, req_slug))
    IN  IF ~dep.ok
        THEN [ok |-> FALSE, inputs |-> inputs, err |-> dep.err,
              db |-> dep.db, fetches |-> dep.fetches]
        ELSE ResolveDependencies(dep.db, Tail(required_slugs), backfill, fetch_deps,
                                 oracle, dep.fetches, Append(inputs, dep.data))

\* the fallback test of calculate_and_save for a slug without metadata
SkipsUnknown(indicator_slug) ==
  LET chars == SlugChars(indicator_slug)
  IN  (\E i \in DOMAIN chars : is_lowercase(chars[i]))
      /\ ~(\E i \in DOMAIN chars : chars[i] = "-")

\* orchestrator::calculate_and_save
calculate_and_save(db, indicator_slug, backfill, fetch_deps, oracle, fetches) ==
  IF HasMetadata(indicator_slug)
  THEN
    LET meta   == get_metadata(indicator_slug)
        symbol == IF meta.source_symbol = NoSymbol THEN indicator_slug
                  ELSE meta.source_symbol
    IN  CASE meta.source \in FetchableSources ->
               fetch_and_save_raw(db, indicator_slug, symbol, meta.source,
                                  backfill, oracle, fetches)
          [] meta.source = "Glassnode" ->
               Err(db, fetches, << "Glassnode fetcher not implemented for", indicator_slug >>)
          [] meta.source = "Manual" -> Ok(db, fetches, << >>)
          [] OTHER ->
               IF ~HasCalculator(indicator_slug)
               THEN Err(db, fetches,
                        << "Calculator implementation not found for", indicator_slug >>)
               ELSE
                 LET deps == ResolveDependencies(db, required_inputs(indicator_slug),
                                                 backfill, fetch_deps, oracle, fetches, << >>)
                 IN  IF ~deps.ok THEN Err(deps.db, deps.fetches, deps.err)
                     ELSE
                       LET calc == calculate(indicator_slug, deps.inputs)
                       IN  IF ~calc.ok
                           THEN Err(deps.db, deps.fetches,
                                    << "Calculation failed for", indicator_slug >> \o calc.err)
                           ELSE Ok(save_historical_data(deps.db, indicator_slug, calc.data,
                                                        "System", "Calculated"),
                                   deps.fetches, calc.data)
  ELSE IF SkipsUnknown(indicator_slug)
  THEN Err(db, fetches, << "Unknown indicator", indicator_slug, "Not a valid external ID." >>)
  ELSE fetch_and_save_raw(db, indicator_slug, indicator_slug, "Fred",
                          backfill, oracle, fetches)

\* the slugs whose provider a call of calculate_and_save for slug can reach
RECURSIVE FetchTargets(_)
FetchTargets(slug) ==
  IF ~HasMetadata(slug) THEN {slug}
  ELSE IF get_metadata(slug).source = "Calculated"
  THEN UNION { FetchTargets(required_inputs(slug)[i]) : i \in DOMAIN required_inputs(slug) }
  ELSE {slug}

\* no provider answers: a call that reaches none (an answer asked of it is an error)
NoAnswers == [t \in {} |-> [ok |-> FALSE, data |-> << >>, cause |-> NoMessage]]

\* the answers of the providers during one call of calculate_and_save
Oracles(slug) ==
  LET targets == FetchTargets(slug)
  IN  { o \in [targets -> UNION { FetchOutcomes(t) : t \in targets }] :
          \A t \in targets : o[t] \in FetchOutcomes(t) }

(***************************************************************************)
(* State                                                                   *)
(***************************************************************************)
VARIABLES
  clock,            \* chrono::Utc::now(), in seconds
  fred_api_key,     \* settings["FRED_API_KEY"], NoSymbol when the row is absent
  rowOrder,         \* slugs of the rows of table indicators, in row order
  indicators,       \* table indicators: slug -> row
  historical_data,  \* table historical_data: slug -> rows (timestamp, value)
  started,          \* number of run_pending_updates invocations so far
  run,              \* per invocation: locals of run_pending_updates and its trace
  host,             \* the host's direct calculate_and_save calls
  tiingo            \* the Tiingo usage rows of table settings and the fetches under way

vars == << clock, fred_api_key, rowOrder, indicators, historical_data, started, run, host,
           tiingo >>

DB == [rowOrder |-> rowOrder, indicators |-> indicators, historical_data |-> historical_data]

\* seeder::source_to_string
source_to_string(source) == SourceName(source)

\* the refresh_interval match of seeder::seed_registry
SeedRefreshInterval(source) ==
  IF source \in { "Tiingo", "Binance" } THEN "60m" ELSE "1440m"

\* seeder::seed_registry on an empty table
seed_registry ==
  [slug \in RegistrySlugs |->
     [source |-> source_to_string(get_metadata(slug).source),
      category |-> get_metadata(slug).category,
      refresh_interval |-> SeedRefreshInterval(get_metadata(slug).source),
      update_status |-> "idle", error_message |-> NoMessage, last_updated_at |-> NoTime]]

\* the indicators an earlier session synchronized, at time 0
EarlierSync ==
  { "buffett_indicator", "us_market_cap", "gdp",
    "yield_curve_10y_3m", "us_3m", "crypto_fear_greed" }

\* the rows of table indicators when the application starts
StartRows ==
  [slug \in RegistrySlugs |->
     IF slug \in EarlierSync
     THEN [seed_registry[slug] EXCEPT !.update_status = "success", !.last_updated_at = 0]
     ELSE seed_registry[slug]]

\* what the provider of us_10y answered in the earlier session: one point,
\* whose value it has revised since
SeriesEarlier == << DataPoint(1, 9) >>

\* the stored series when the application starts
StartSeries ==
  [slug \in AllSlugs |->
     CASE slug = "us_market_cap"     -> UpsertAll(EmptySeries, SeriesCap)
       [] slug = "gdp"               -> UpsertAll(EmptySeries, SeriesGdp)
       [] slug = "buffett_indicator" ->
            UpsertAll(EmptySeries, buffett_calculate(<< SeriesCap, SeriesGdp >>).data)
       [] slug = "crypto_fear_greed" -> UpsertAll(EmptySeries, SeriesX)
       [] slug = "us_3m"             -> UpsertAll(EmptySeries, SeriesX)
       \* fetched as a dependency of yield_curve_10y_3m: its row was not marked
       [] slug = "us_10y"            -> UpsertAll(EmptySeries, SeriesEarlier)
       [] slug = "yield_curve_10y_3m" ->
            UpsertAll(EmptySeries, calculate_spread(<< SeriesEarlier, SeriesX >>).data)
       [] OTHER                      -> EmptySeries]

\* for each of n fetcher calls, the number of rate-limiter waits that had
\* completed in the invocation when the call was made
WaitStamps(n, completed) == [i \in 1..n |-> completed]

NoResult == [ok |-> TRUE, err |-> NoMessage, data |-> << >>]

IdleRun ==
  [pc |-> "idle", api_key |-> NoSymbol, stale |-> << >>, idx |-> 0,
   update_count |-> 0, result |-> NoResult, ret |-> "none",
   p2 |-> 0, calc_success |-> 0, calc_fail |-> 0, base_success |-> 0, base_fail |-> 0,
   \* trace of the invocation
   marked |-> << >>, resolved |-> << >>, fetched |-> << >>, waits |-> << >>,
   fetch_waits |-> << >>, quota_failure |-> FALSE,
   emitted |-> 0, alerts |-> FALSE, stopped |-> FALSE, probe |-> "none",
   rows0 |-> << >>, hist0 |-> << >>, hist1 |-> << >>, prev |-> {}]

NoHost == [calls |-> 0, op |-> "none", slug |-> NoSymbol, backfill |-> FALSE, fetch_deps |-> FALSE,
           ok |-> TRUE, data |-> << >>, err |-> NoMessage, fetched |-> << >>,
           db0 |-> << >>, delay |-> NoTime, before |-> NoSymbol,
           inputs |-> << >>]

\* the callers that may be inside TiingoFetcher::fetch_data at a time
Fetchers == { 1, 2 }

IdleFetch == [pc |-> "idle", exists |-> FALSE, count |-> 0, calls |-> 0, refused |-> 0]

\* no usage row, no request sent, no fetch under way
NoTiingo ==
  [settings |-> [k \in {} |-> 0],
   sent |-> [hour |-> 0, day |-> 0],
   fetch |-> [p \in Fetchers |-> IdleFetch]]

Init ==
  /\ clock = 0
  /\ fred_api_key = NoSymbol
  /\ rowOrder = [i \in DOMAIN INDICATORS |-> INDICATORS[i].slug]
  /\ indicators = StartRows
  /\ historical_data = StartSeries
  /\ started = 0
  /\ run = [r \in Runs |-> IdleRun]
  /\ host = NoHost
  /\ tiingo = NoTiingo

Active(r) == run[r].pc \notin { "idle", "done" }

NoneActive == \A r \in Runs : ~Active(r)

dbvars == << rowOrder, indicators, historical_data >>

\* the Calculated indicators batch_calculate_derived_indicators walks through
calc_indicators ==
  LET IsCalc(m) == m.source = "Calculated" IN SelectSeq(get_available_indicators, IsCalc)

\* variant: the bad-request marker is not tested
IsCriticalError_No400(e) ==
  contains(e, "403") \/ contains(e, "429") \/ contains(e, "Limit Reached")

\* variant: every failure of a batch entry ends the batch phase
IsCriticalError_Any(e) == TRUE

\* the quota / auth / bad-request test of the batch loop (scheduler.rs:146)
IsCriticalError(e) ==
  contains(e, "403") \/ contains(e, "429") \/ contains(e, "400") \/ contains(e, "Limit Reached")

(***************************************************************************)
(* Environment                                                             *)
(***************************************************************************)
Tick ==
  /\ NoneActive
  /\ clock + TickStep <= MaxTicks * TickStep
  /\ clock' = clock + TickStep
  /\ UNCHANGED << fred_api_key, dbvars, started, run, host, tiingo >>

\* lib.rs save_api_key
SaveApiKey ==
  /\ fred_api_key = NoSymbol
  /\ fred_api_key' = "key"
  /\ UNCHANGED << clock, dbvars, started, run, host, tiingo >>

(***************************************************************************)
(* Scheduler (core/scheduler.rs, run_pending_updates)                      *)
(***************************************************************************)
\* the stale entries the invocation wrote Success for (lines 108 and 139)
MarkedSuccess(r) ==
  { run[r].resolved[i].slug :
      i \in { j \in DOMAIN run[r].resolved :
                run[r].resolved[j].fetch_deps /\ run[r].resolved[j].ok } }

\* the stale entries of a finished invocation that it did not write Success for
Unfinished(r) ==
  { run[r].stale[i][1] : i \in DOMAIN run[r].stale } \ MarkedSuccess(r)

\* variant: the run goes on without the credential
LoadKey_IgnoresMissingKey(r) ==
  /\ ~Active(r)
  /\ started < MaxRuns
  /\ started' = started + 1
  /\ run' = [run EXCEPT ![r] =
        [IdleRun EXCEPT !.pc = "get_stale", !.api_key = fred_api_key,
                        !.rows0 = indicators, !.hist0 = historical_data,
                        !.hist1 = historical_data, !.prev = Unfinished(r)]]
  /\ UNCHANGED << clock, fred_api_key, dbvars, host, tiingo >>

\* lines 45-59: a trigger fires; the credential is loaded
LoadKey(r) ==
  /\ ~Active(r)
  /\ started < MaxRuns
  /\ started' = started + 1
  /\ run' = [run EXCEPT ![r] =
        IF fred_api_key = NoSymbol
        THEN [IdleRun EXCEPT !.pc = "done", !.ret = "ok",
                             !.rows0 = indicators, !.hist0 = historical_data,
                             !.hist1 = historical_data]
        ELSE [IdleRun EXCEPT !.pc = "get_stale", !.api_key = fred_api_key,
                             !.rows0 = indicators, !.hist0 = historical_data,
                             !.hist1 = historical_data, !.prev = Unfinished(r)]]
  /\ UNCHANGED << clock, fred_api_key, dbvars, host, tiingo >>

\* lines 61-72
GetStale(r) ==
  /\ run[r].pc = "get_stale"
  /\ run' = [run EXCEPT ![r].stale = get_stale_indicators(rowOrder, indicators, clock),
                         ![r].pc = "alerts"]
  /\ UNCHANGED << clock, fred_api_key, dbvars, started, host, tiingo >>

\* variant: an empty stale set skips the update loop only
CheckAlerts_NoEarlyReturn(r) ==
  /\ run[r].pc = "alerts"
  /\ run' = [run EXCEPT ![r].alerts = TRUE,
                         ![r].pc = IF run[r].stale = << >> THEN "phase2" ELSE "canary_mark",
                         ![r].idx = 1]
  /\ UNCHANGED << clock, fred_api_key, dbvars, started, host, tiingo >>

\* lines 81-88
CheckAlerts(r) ==
  /\ run[r].pc = "alerts"
  /\ run' = [run EXCEPT ![r].alerts = TRUE,
                         ![r].pc = IF run[r].stale = << >> THEN "done" ELSE "canary_mark",
                         ![r].ret = IF run[r].stale = << >> THEN "ok" ELSE "none",
                         ![r].idx = 1]
  /\ UNCHANGED << clock, fred_api_key, dbvars, started, host, tiingo >>

\* variant: the status is not written before the resolve
MarkUpdating_Skip(r) ==
  /\ run[r].pc \in { "canary_mark", "batch_mark" }
  /\ LET slug == run[r].stale[run[r].idx][1]
     IN  run' = [run EXCEPT ![r].marked = Append(@, slug),
                            ![r].pc = IF run[r].pc = "canary_mark"
                                      THEN "canary_resolve" ELSE "batch_resolve"]
  /\ UNCHANGED << clock, fred_api_key, dbvars, started, host, tiingo >>

\* lines 101 and 133: update_indicator_status(slug, "updating", None)
MarkUpdating(r) ==
  /\ run[r].pc \in { "canary_mark", "batch_mark" }
  /\ LET slug == run[r].stale[run[r].idx][1]
     IN  /\ indicators' = update_indicator_status(indicators, slug, "updating", NoMessage, clock)
         /\ run' = [run EXCEPT ![r].marked = Append(@, slug),
                                ![r].pc = IF run[r].pc = "canary_mark"
                                          THEN "canary_resolve" ELSE "batch_resolve"]
  /\ UNCHANGED << clock, fred_api_key, rowOrder, historical_data, started, host, tiingo >>

\* variant: a series fetched earlier in the invocation is taken from the
\* store instead of being fetched again
Resolve_Memoized(r) ==
  /\ run[r].pc \in { "canary_resolve", "batch_resolve" }
  /\ LET slug == run[r].stale[run[r].idx][1]
         seen == { run[r].fetched[i].slug : i \in DOMAIN run[r].fetched }
         deps == { required_inputs(slug)[i] : i \in DOMAIN required_inputs(slug) }
     IN  \E oracle \in Oracles(slug) :
           LET res == IF slug \in seen
                      THEN Ok(DB, << >>, get_historical_data(DB, slug))
                      ELSE calculate_and_save(DB, slug, FALSE, deps \cap seen = {},
                                              oracle, << >>)
           IN  /\ rowOrder' = res.db.rowOrder
               /\ indicators' = res.db.indicators
               /\ historical_data' = res.db.historical_data
               /\ run' = [run EXCEPT
                     ![r].result = [ok |-> res.ok, err |-> res.err, data |-> res.data],
                     ![r].resolved = Append(@, [slug |-> slug, backfill |-> FALSE,
                                                fetch_deps |-> TRUE, ok |-> res.ok]),
                     ![r].fetched = @ \o res.fetches,
                     ![r].fetch_waits = @ \o WaitStamps(Len(res.fetches), Len(run[r].waits)),
                     ![r].probe = IF run[r].pc # "canary_resolve" THEN @
                                  ELSE IF res.ok THEN "ok" ELSE "err",
                     ![r].hist1 = IF run[r].pc = "canary_resolve"
                                  THEN res.db.historical_data ELSE @,
                     ![r].pc = IF run[r].pc = "canary_resolve"
                               THEN "canary_result" ELSE "batch_result"]
  /\ UNCHANGED << clock, fred_api_key, started, host, tiingo >>

\* lines 103 and 135: calculate_and_save(slug, false, true)
Resolve(r) ==
  /\ run[r].pc \in { "canary_resolve", "batch_resolve" }
  /\ LET slug == run[r].stale[run[r].idx][1]
     IN  \E oracle \in Oracles(slug) :
           LET res == calculate_and_save(DB, slug, FALSE, TRUE, oracle, << >>)
           IN  /\ rowOrder' = res.db.rowOrder
               /\ indicators' = res.db.indicators
               /\ historical_data' = res.db.historical_data
               /\ run' = [run EXCEPT
                     ![r].result = [ok |-> res.ok, err |-> res.err, data |-> res.data],
                     ![r].resolved = Append(@, [slug |-> slug, backfill |-> FALSE,
                                                fetch_deps |-> TRUE, ok |-> res.ok]),
                     ![r].fetched = @ \o res.fetches,
                     ![r].fetch_waits = @ \o WaitStamps(Len(res.fetches), Len(run[r].waits)),
                     ![r].probe = IF run[r].pc # "canary_resolve" THEN @
                                  ELSE IF res.ok THEN "ok" ELSE "err",
                     ![r].hist1 = IF run[r].pc = "canary_resolve"
                                  THEN res.db.historical_data ELSE @,
                     ![r].pc = IF run[r].pc = "canary_resolve"
                               THEN "canary_result" ELSE "batch_result"]
  /\ UNCHANGED << clock, fred_api_key, started, host, tiingo >>

\* variant: a failed canary does not end the run
CanaryResult_NoAbort(r) ==
  /\ run[r].pc = "canary_result"
  /\ LET slug == run[r].stale[1][1]
     IN  IF run[r].result.ok
         THEN /\ indicators' = update_indicator_status(indicators, slug, "success", NoMessage, clock)
              /\ run' = [run EXCEPT ![r].update_count = @ + 1, ![r].pc = "canary_wait"]
         ELSE /\ indicators' = update_indicator_status(indicators, slug, "error",
                                                       run[r].result.err, clock)
              /\ run' = [run EXCEPT ![r].pc = "canary_wait"]
  /\ UNCHANGED << clock, fred_api_key, rowOrder, historical_data, started, host, tiingo >>

\* variant: a failed canary skips the batch phase only
CanaryResult_ToPhase2(r) ==
  /\ run[r].pc = "canary_result"
  /\ LET slug == run[r].stale[1][1]
     IN  IF run[r].result.ok
         THEN /\ indicators' = update_indicator_status(indicators, slug, "success", NoMessage, clock)
              /\ run' = [run EXCEPT ![r].update_count = @ + 1, ![r].pc = "canary_wait"]
         ELSE /\ indicators' = update_indicator_status(indicators, slug, "error",
                                                       run[r].result.err, clock)
              /\ run' = [run EXCEPT ![r].pc = "phase2"]
  /\ UNCHANGED << clock, fred_api_key, rowOrder, historical_data, started, host, tiingo >>

\* variant: a failed canary ends the run before its status is written
CanaryResult_NoErrorWrite(r) ==
  /\ run[r].pc = "canary_result"
  /\ LET slug == run[r].stale[1][1]
     IN  IF run[r].result.ok
         THEN /\ indicators' = update_indicator_status(indicators, slug, "success", NoMessage, clock)
              /\ run' = [run EXCEPT ![r].update_count = @ + 1, ![r].pc = "canary_wait"]
         ELSE /\ indicators' = indicators
              /\ run' = [run EXCEPT ![r].ret = "err", ![r].pc = "done"]
  /\ UNCHANGED << clock, fred_api_key, rowOrder, historical_data, started, host, tiingo >>

\* lines 105-118: the match on the canary's result
CanaryResult(r) ==
  /\ run[r].pc = "canary_result"
  /\ LET slug == run[r].stale[1][1]
     IN  IF run[r].result.ok
         THEN /\ indicators' = update_indicator_status(indicators, slug, "success", NoMessage, clock)
              /\ run' = [run EXCEPT ![r].update_count = @ + 1, ![r].pc = "canary_wait"]
         ELSE /\ indicators' = update_indicator_status(indicators, slug, "error",
                                                       run[r].result.err, clock)
              /\ run' = [run EXCEPT ![r].ret = "err", ![r].pc = "done"]
  /\ UNCHANGED << clock, fred_api_key, rowOrder, historical_data, started, host, tiingo >>

\* line 111: RateLimiter::wait(probe_source)
CanaryWait(r) ==
  /\ run[r].pc = "canary_wait"
  /\ run' = [run EXCEPT ![r].waits = Append(@, run[r].stale[1][2]),
                         ![r].idx = 2,
                         ![r].pc = IF Len(run[r].stale) > 1 THEN "batch_mark" ELSE "phase2"]
  /\ UNCHANGED << clock, fred_api_key, dbvars, started, host, tiingo >>

\* lines 137-151: the match on a batch entry's result
BatchResult(r) ==
  /\ run[r].pc = "batch_result"
  /\ LET slug == run[r].stale[run[r].idx][1]
         e    == run[r].result.err
     IN  IF run[r].result.ok
         THEN /\ indicators' = update_indicator_status(indicators, slug, "success", NoMessage, clock)
              /\ run' = [run EXCEPT ![r].update_count = @ + 1, ![r].pc = "batch_wait"]
         ELSE /\ indicators' = update_indicator_status(indicators, slug, "error", e, clock)
              /\ run' = IF IsCriticalError(e)
                        THEN [run EXCEPT ![r].ret = "ok", ![r].stopped = TRUE, ![r].pc = "done"]
                        ELSE [run EXCEPT ![r].pc = "batch_wait"]
  /\ UNCHANGED << clock, fred_api_key, rowOrder, historical_data, started, host, tiingo >>

\* variant: the loop goes on to the next entry without the wait
BatchWait_NoWait(r) ==
  /\ run[r].pc = "batch_wait"
  /\ run' = [run EXCEPT
        ![r].idx = @ + 1,
        ![r].pc = IF run[r].idx < Len(run[r].stale) THEN "batch_mark" ELSE "phase2"]
  /\ UNCHANGED << clock, fred_api_key, dbvars, started, host, tiingo >>

\* lines 153-159: RateLimiter::wait(source), and the pause after a full chunk
BatchWait(r) ==
  /\ run[r].pc = "batch_wait"
  /\ LET i         == run[r].idx
         pos       == i - 1
         remaining == Len(run[r].stale) - 1
         chunkEnd  == (pos % BATCH_SIZE = 0) \/ (pos = remaining)
         fullChunk == pos % BATCH_SIZE = 0
     IN  run' = [run EXCEPT
           ![r].waits = IF chunkEnd /\ fullChunk
                        THEN Append(Append(@, run[r].stale[i][2]), "chunk pause")
                        ELSE Append(@, run[r].stale[i][2]),
           ![r].idx = i + 1,
           ![r].pc = IF i < Len(run[r].stale) THEN "batch_mark" ELSE "phase2"]
  /\ UNCHANGED << clock, fred_api_key, dbvars, started, host, tiingo >>

\* variant: the first failure ends the pass
Phase2Step_AbortOnFailure(r) ==
  /\ run[r].pc = "phase2"
  /\ run[r].p2 < Len(calc_indicators)
  /\ LET slug == calc_indicators[run[r].p2 + 1].slug
         res  == calculate_and_save(DB, slug, TRUE, FALSE, NoAnswers, << >>)
     IN  /\ rowOrder' = res.db.rowOrder
         /\ indicators' = res.db.indicators
         /\ historical_data' = res.db.historical_data
         /\ run' = [run EXCEPT
               ![r].resolved = Append(@, [slug |-> slug, backfill |-> TRUE,
                                          fetch_deps |-> FALSE, ok |-> res.ok]),
               ![r].fetched = @ \o res.fetches,
               ![r].fetch_waits = @ \o WaitStamps(Len(res.fetches), Len(run[r].waits)),
               ![r].calc_success = IF res.ok THEN @ + 1 ELSE @,
               ![r].calc_fail = IF res.ok THEN @ ELSE @ + 1,
               ![r].p2 = IF res.ok THEN @ + 1 ELSE Len(calc_indicators)]
  /\ UNCHANGED << clock, fred_api_key, started, host, tiingo >>

\* variant: an indicator the pass recomputed is marked Success
Phase2Step_WritesStatus(r) ==
  /\ run[r].pc = "phase2"
  /\ run[r].p2 < Len(calc_indicators)
  /\ LET slug == calc_indicators[run[r].p2 + 1].slug
         res  == calculate_and_save(DB, slug, TRUE, FALSE, NoAnswers, << >>)
     IN  /\ rowOrder' = res.db.rowOrder
         /\ indicators' = IF res.ok
                          THEN update_indicator_status(res.db.indicators, slug, "success",
                                                       NoMessage, clock)
                          ELSE res.db.indicators
         /\ historical_data' = res.db.historical_data
         /\ run' = [run EXCEPT
               ![r].resolved = Append(@, [slug |-> slug, backfill |-> TRUE,
                                          fetch_deps |-> FALSE, ok |-> res.ok]),
               ![r].fetched = @ \o res.fetches,
               ![r].fetch_waits = @ \o WaitStamps(Len(res.fetches), Len(run[r].waits)),
               ![r].calc_success = IF res.ok THEN @ + 1 ELSE @,
               ![r].calc_fail = IF res.ok THEN @ ELSE @ + 1,
               ![r].p2 = @ + 1]
  /\ UNCHANGED << clock, fred_api_key, started, host, tiingo >>

\* line 167: one iteration of batch_calculate_derived_indicators
\* (orchestrator.rs:281-299): calculate_and_save(slug, true, false)
Phase2Step(r) ==
  /\ run[r].pc = "phase2"
  /\ run[r].p2 < Len(calc_indicators)
  /\ LET slug == calc_indicators[run[r].p2 + 1].slug
     IN  \E oracle \in { NoAnswers } :
           LET res == calculate_and_save(DB, slug, TRUE, FALSE, oracle, << >>)
           IN  /\ rowOrder' = res.db.rowOrder
               /\ indicators' = res.db.indicators
               /\ historical_data' = res.db.historical_data
               /\ run' = [run EXCEPT
                     ![r].resolved = Append(@, [slug |-> slug, backfill |-> TRUE,
                                                fetch_deps |-> FALSE, ok |-> res.ok]),
                     ![r].fetched = @ \o res.fetches,
                     ![r].fetch_waits = @ \o WaitStamps(Len(res.fetches), Len(run[r].waits)),
                     ![r].calc_success = IF res.ok THEN @ + 1 ELSE @,
                     ![r].calc_fail = IF res.ok THEN @ ELSE @ + 1,
                     ![r].p2 = @ + 1]
  /\ UNCHANGED << clock, fred_api_key, started, host, tiingo >>

\* lines 170-184: the risk history (outside this model), then the signal
Finish(r) ==
  /\ run[r].pc = "phase2"
  /\ run[r].p2 = Len(calc_indicators)
  /\ run' = [run EXCEPT ![r].emitted = IF run[r].update_count > 0 THEN @ + 1 ELSE @,
                         ![r].ret = "ok",
                         ![r].pc = "done"]
  /\ UNCHANGED << clock, fred_api_key, dbvars, started, host, tiingo >>

RunStep(r) ==
  \/ LoadKey(r)
  \/ GetStale(r)
  \/ CheckAlerts(r)
  \/ MarkUpdating(r)
  \/ Resolve(r)
  \/ CanaryResult(r)
  \/ CanaryWait(r)
  \/ BatchResult(r)
  \/ BatchWait(r)
  \/ Phase2Step(r)
  \/ Finish(r)

Next ==
  \/ Tick
  \/ SaveApiKey
  \/ \E r \in Runs : RunStep(r)

Spec == Init /\ [][Next]_vars

(***************************************************************************)
(* The orchestrator called directly (lib.rs calculate_indicator and the    *)
(* batch helpers call calculate_and_save outside run_pending_updates)      *)
(***************************************************************************)
HostResolve ==
  /\ NoneActive
  /\ host.calls < MaxHostCalls
  /\ \E slug \in AllSlugs, backfill \in BOOLEAN, fetch_deps \in BOOLEAN :
       \E oracle \in Oracles(slug) :
         LET res == calculate_and_save(DB, slug, backfill, fetch_deps, oracle, << >>)
         IN  /\ rowOrder' = res.db.rowOrder
             /\ indicators' = res.db.indicators
             /\ historical_data' = res.db.historical_data
             /\ host' = [calls |-> host.calls + 1, op |-> "calculate_indicator",
                         slug |-> slug, backfill |-> backfill,
                         fetch_deps |-> fetch_deps, ok |-> res.ok, data |-> res.data,
                         err |-> res.err, fetched |-> res.fetches, db0 |-> DB,
                         delay |-> NoTime, before |-> NoSymbol,
                         inputs |-> << >>]
  /\ UNCHANGED << clock, fred_api_key, started, run, tiingo >>

NextResolve == HostResolve

SpecResolve == Init /\ [][NextResolve]_vars

(***************************************************************************)
(* lib.rs fetch_fred_data: the host fetches a FRED series by its id and    *)
(* saves what the provider answered under that id                          *)
(***************************************************************************)
\* the series ids the host asks for
SeriesIds == { "DGS10X", "us_market_cap" }

\* the points a provider's answer is made of
AnswerPoints == { DataPoint(t, v) : t \in { 1, 2 }, v \in { 10, 11 } }

\* the answers of the provider: one or two points, in any order
FredAnswers ==
  UNION { [1..n -> AnswerPoints] : n \in { 1, 2 } }

fetch_fred_data ==
  /\ host.calls < MaxHostCalls
  /\ \E series_id \in SeriesIds :
       \/ \E data \in FredAnswers :
            LET db == save_historical_data(DB, series_id, data, "FRED", "Macro")
            IN  /\ rowOrder' = db.rowOrder
                /\ indicators' = db.indicators
                /\ historical_data' = db.historical_data
                /\ host' = [calls |-> host.calls + 1, op |-> "fetch_fred_data",
                            slug |-> series_id, backfill |-> FALSE, fetch_deps |-> FALSE,
                            ok |-> TRUE, data |-> data, err |-> NoMessage,
                            fetched |-> << [provider |-> "Fred", symbol |-> series_id,
                                            slug |-> series_id, backfill |-> FALSE] >>,
                            db0 |-> DB, delay |-> NoTime, before |-> NoSymbol,
                            inputs |-> << >>]
       \/ \E cause \in FetchCauses :
            /\ host' = [calls |-> host.calls + 1, op |-> "fetch_fred_data",
                        slug |-> series_id, backfill |-> FALSE, fetch_deps |-> FALSE,
                        ok |-> FALSE, data |-> << >>, err |-> cause,
                        fetched |-> << [provider |-> "Fred", symbol |-> series_id,
                                        slug |-> series_id, backfill |-> FALSE] >>,
                        db0 |-> DB, delay |-> NoTime, before |-> NoSymbol,
                        inputs |-> << >>]
            /\ UNCHANGED dbvars
  /\ UNCHANGED << clock, fred_api_key, started, run, tiingo >>

NextStore == fetch_fred_data

SpecStore == Init /\ [][NextStore]_vars

(***************************************************************************)
(* Rate limiter (core/rate_limiter.rs).  Delays are in milliseconds.       *)
(***************************************************************************)
\* the source names wait is called with (scheduler.rs:111, 153: the source
\* column; orchestrator.rs:243-248; lib.rs:28-38), and other spellings
WaitSources ==
  { "FRED", "Fred", "fred", "Tiingo", "TIINGO", "tiingo", "Binance", "BINANCE",
    "Upbit", "upbit", "Calculated", "Manual", "Alternative", "Default" }

\* the characters of a source name
SourceChars(source) ==
  CASE source = "FRED"        -> << "F","R","E","D" >>
    [] source = "Fred"        -> << "F","r","e","d" >>
    [] source = "fred"        -> << "f","r","e","d" >>
    [] source = "Tiingo"      -> << "T","i","i","n","g","o" >>
    [] source = "TIINGO"      -> << "T","I","I","N","G","O" >>
    [] source = "tiingo"      -> << "t","i","i","n","g","o" >>
    [] source = "Binance"     -> << "B","i","n","a","n","c","e" >>
    [] source = "BINANCE"     -> << "B","I","N","A","N","C","E" >>
    [] source = "Upbit"       -> << "U","p","b","i","t" >>
    [] source = "upbit"       -> << "u","p","b","i","t" >>
    [] source = "Calculated"  -> << "C","a","l","c","u","l","a","t","e","d" >>
    [] source = "Manual"      -> << "M","a","n","u","a","l" >>
    [] source = "Alternative" -> << "A","l","t","e","r","n","a","t","i","v","e" >>
    [] OTHER                  -> << "D","e","f","a","u","l","t" >>

LowerAlphabet ==
  << "a","b","c","d","e","f","g","h","i","j","k","l","m",
     "n","o","p","q","r","s","t","u","v","w","x","y","z" >>

UpperAlphabet ==
  << "A","B","C","D","E","F","G","H","I","J","K","L","M",
     "N","O","P","Q","R","S","T","U","V","W","X","Y","Z" >>

\* str::to_uppercase, on the characters of an ASCII name
to_uppercase(chars) ==
  [i \in DOMAIN chars |->
     IF \E k \in DOMAIN LowerAlphabet : LowerAlphabet[k] = chars[i]
     THEN UpperAlphabet[CHOOSE k \in DOMAIN LowerAlphabet : LowerAlphabet[k] = chars[i]]
     ELSE chars[i]]

\* rng.gen_range(lo..hi): the durations the model draws, both ends of the
\* range and every JitterStep-th value between
gen_range(lo, hi) ==
  { d \in lo..(hi - 1) : (d - lo) % JitterStep = 0 \/ d = hi - 1 }

\* the match of RateLimiter::wait on a name as spelled: the durations the
\* call may sleep for
WaitPolicy(name) ==
  CASE name = << "F","R","E","D" >>                 -> gen_range(FredMinMs, FredMaxMs)
    [] name = << "T","I","I","N","G","O" >>         -> gen_range(TiingoMinMs, TiingoMaxMs)
    [] name = << "U","P","B","I","T" >>             -> { ExchangeMs }
    [] name = << "B","I","N","A","N","C","E" >>     -> { ExchangeMs }
    [] OTHER                                        -> { DefaultMs }

\* variant: the name is matched as given
RateLimiter_wait_CaseSensitive(source) == WaitPolicy(SourceChars(source))

\* RateLimiter::wait: the durations a call with this source may sleep for
RateLimiter_wait(source) == WaitPolicy(to_uppercase(SourceChars(source)))

\* a call of RateLimiter::wait(source) that sleeps for delay
WaitFor(source, delay) ==
  /\ host.calls < MaxHostCalls
  /\ delay \in RateLimiter_wait(source)
  /\ host' = [NoHost EXCEPT !.calls = host.calls + 1, !.op = "wait",
                            !.slug = source, !.delay = delay,
                            !.before = host.slug]
  /\ UNCHANGED << clock, fred_api_key, dbvars, started, run, tiingo >>

\* a caller waits on the rate limiter
Wait ==
  \E source \in WaitSources :
    \E delay \in RateLimiter_wait(source) : WaitFor(source, delay)

NextWait == Wait

SpecWait == Init /\ [][NextWait]_vars

(***************************************************************************)
(* The staleness query on stores left by earlier runs                      *)
(***************************************************************************)
\* seconds since the last success of a row, NoTime for a row never updated
Elapsed60 == { NoTime, 59 * 60, 59 * 60 + 59, 60 * 60, 61 * 60 }
Elapsed1440 == { NoTime, 60 * 60, 1439 * 60 + 59, 1440 * 60, 1441 * 60 }

UpdatedAgo(row, elapsed) ==
  IF elapsed = NoTime THEN row
  ELSE [row EXCEPT !.update_status = "success", !.last_updated_at = StaleNow - elapsed]

InitStale ==
  /\ clock = StaleNow
  /\ fred_api_key = "key"
  /\ rowOrder = [i \in DOMAIN INDICATORS |-> INDICATORS[i].slug]
  /\ \E e1 \in Elapsed60, e2 \in Elapsed1440, e3 \in Elapsed1440 :
       indicators = [seed_registry EXCEPT
                       !["sector_xlk"] = UpdatedAgo(@, e1),
                       !["us_10y"] = UpdatedAgo(@, e2),
                       !["yield_curve_10y_2y"] = UpdatedAgo(@, e3)]
  /\ historical_data = [slug \in AllSlugs |-> EmptySeries]
  /\ started = 0
  /\ run = [r \in Runs |-> IdleRun]
  /\ host = NoHost
  /\ tiingo = NoTiingo

NextStale == \E r \in Runs : LoadKey(r) \/ GetStale(r)

SpecStale == InitStale /\ [][NextStale]_vars

(***************************************************************************)
(* Overlapping invocations: the startup trigger (scheduler.rs:29-40) and   *)
(* the cron job (scheduler.rs:16-26) each spawn run_pending_updates on the *)
(* same pool, and nothing keeps one from starting while the other runs.    *)
(* The store is the one left by the runs of the day before, after the      *)
(* seeder's cleanup of the rows that are not registry keys.                *)
(***************************************************************************)
OverlapRuns == { 1, 2 }

OverlapNow == DefaultRefreshMinutes * SecondsPerMinute

\* the rows a day-old store holds: us_10y was synchronized a day ago,
\* sector_xlk never, the others just now
DayOldRows ==
  [slug \in RegistrySlugs |->
     CASE slug = "us_10y" ->
            [seed_registry[slug] EXCEPT !.update_status = "success", !.last_updated_at = 0]
       [] slug = "sector_xlk" -> seed_registry[slug]
       [] OTHER ->
            [seed_registry[slug] EXCEPT !.update_status = "success",
                                        !.last_updated_at = OverlapNow]]

\* the series a day-old store holds: the provider of us_10y had answered
\* with one point, whose value it has revised since
DayOldSeries ==
  [slug \in AllSlugs |->
     CASE slug = "us_10y"             -> UpsertAll(EmptySeries, << DataPoint(1, 9) >>)
       [] slug = "us_2y"              -> UpsertAll(EmptySeries, SeriesY)
       [] slug = "yield_curve_10y_2y" ->
            UpsertAll(EmptySeries,
                      calculate_spread(<< << DataPoint(1, 9) >>, SeriesY >>).data)
       [] slug = "financial_stress"   -> UpsertAll(EmptySeries, SeriesX)
       [] OTHER                       -> StartSeries[slug]]

InitOverlap ==
  /\ clock = OverlapNow
  /\ fred_api_key = "key"
  /\ rowOrder = [i \in DOMAIN INDICATORS |-> INDICATORS[i].slug]
  /\ indicators = DayOldRows
  /\ historical_data = DayOldSeries
  /\ started = 0
  /\ run = [r \in OverlapRuns |-> IdleRun]
  /\ host = NoHost
  /\ tiingo = NoTiingo

\* variant: a trigger waits until no invocation is running
OverlapStart_SingleFlight(r) ==
  /\ run[r].pc = "idle"
  /\ \A q \in DOMAIN run : ~Active(q)
  /\ LoadKey(r)

\* a trigger fires: tokio spawns run_pending_updates (scheduler.rs:21, 36)
OverlapStart(r) ==
  /\ run[r].pc = "idle"
  /\ LoadKey(r)

\* a step of the stale query, the canary or the batch phase
PhaseStep(r) ==
  \/ GetStale(r)
  \/ CheckAlerts(r)
  \/ MarkUpdating(r)
  \/ Resolve(r)
  \/ CanaryResult(r)
  \/ CanaryWait(r)
  \/ BatchResult(r)
  \/ BatchWait(r)

NextOverlap ==
  \E r \in OverlapRuns :
    OverlapStart(r) \/ PhaseStep(r) \/ Phase2Step(r) \/ Finish(r)

SpecOverlap == InitOverlap /\ [][NextOverlap]_vars

(***************************************************************************)
(* A run whose stale set holds two Calculated indicators that declare the  *)
(* same dependency, and the dependency itself: the three were synchronized *)
(* a day ago, the others just now.                                         *)
(***************************************************************************)
SharedStale == { "yield_curve_10y_2y", "yield_curve_10y_3m", "us_10y" }

SharedRows ==
  [slug \in RegistrySlugs |->
     [seed_registry[slug] EXCEPT
        !.update_status = "success",
        !.last_updated_at = IF slug \in SharedStale THEN 0 ELSE OverlapNow]]

InitShared ==
  /\ clock = OverlapNow
  /\ fred_api_key = "key"
  /\ rowOrder = [i \in DOMAIN INDICATORS |-> INDICATORS[i].slug]
  /\ indicators = SharedRows
  /\ historical_data = DayOldSeries
  /\ started = 0
  /\ run = [r \in Runs |-> IdleRun]
  /\ host = NoHost
  /\ tiingo = NoTiingo

NextShared == \E r \in Runs : RunStep(r)

SpecShared == InitShared /\ [][NextShared]_vars

(***************************************************************************)
(* lib.rs sync_all_history: the host synchronizes every base indicator     *)
(* (batch_sync_base_indicators) and then runs the same pass over the       *)
(* Calculated indicators as the scheduler                                  *)
(* (batch_calculate_derived_indicators), here on a store just seeded.      *)
(***************************************************************************)
\* the indicators batch_sync_base_indicators walks through
base_indicators ==
  LET IsBase(m) == m.source # "Calculated" /\ m.source # "Manual"
  IN  SelectSeq(get_available_indicators, IsBase)

\* the source name batch_sync_base_indicators gives the rate limiter
BaseWaitName(source) ==
  CASE source = "Fred"    -> "FRED"
    [] source = "Tiingo"  -> "Tiingo"
    [] source = "Binance" -> "Binance"
    [] OTHER              -> "Default"

InitSeeded ==
  /\ clock = 0
  /\ fred_api_key = "key"
  /\ rowOrder = [i \in DOMAIN INDICATORS |-> INDICATORS[i].slug]
  /\ indicators = seed_registry
  /\ historical_data = [slug \in AllSlugs |-> EmptySeries]
  /\ started = 0
  /\ run = [r \in Runs |-> IdleRun]
  /\ host = NoHost
  /\ tiingo = NoTiingo

\* the command is invoked with the api key as its argument
SyncAllStart(r) ==
  /\ ~Active(r)
  /\ started < MaxRuns
  /\ started' = started + 1
  /\ run' = [run EXCEPT ![r] =
        [IdleRun EXCEPT !.pc = IF base_indicators = << >> THEN "phase2" ELSE "base_sync",
                        !.api_key = fred_api_key,
                        !.rows0 = indicators, !.hist0 = historical_data,
                        !.hist1 = historical_data]]
  /\ UNCHANGED << clock, fred_api_key, dbvars, host, tiingo >>

\* variant: a failure with a quota marker ends the loop, as in the
\* scheduler's batch phase
BaseSyncStep_StopOnQuota(r) ==
  /\ run[r].pc = "base_sync"
  /\ LET ind == base_indicators[run[r].idx + 1]
     IN  \E oracle \in Oracles(ind.slug) :
           LET res == calculate_and_save(DB, ind.slug, TRUE, TRUE, oracle, << >>)
           IN  /\ rowOrder' = res.db.rowOrder
               /\ indicators' = res.db.indicators
               /\ historical_data' = res.db.historical_data
               /\ run' = [run EXCEPT
                     ![r].waits = Append(@, BaseWaitName(ind.source)),
                     ![r].resolved = Append(@, [slug |-> ind.slug, backfill |-> TRUE,
                                                fetch_deps |-> TRUE, ok |-> res.ok]),
                     ![r].fetched = @ \o res.fetches,
                     ![r].fetch_waits = @ \o WaitStamps(Len(res.fetches), Len(run[r].waits) + 1),
                     ![r].base_success = IF res.ok THEN @ + 1 ELSE @,
                     ![r].base_fail = IF res.ok THEN @ ELSE @ + 1,
                     ![r].quota_failure = @ \/ (~res.ok /\ IsCriticalError(res.err)),
                     ![r].idx = @ + 1,
                     ![r].pc = IF run[r].idx + 1 = Len(base_indicators)
                                  \/ (~res.ok /\ IsCriticalError(res.err))
                               THEN "phase2" ELSE "base_sync"]
  /\ UNCHANGED << clock, fred_api_key, started, host, tiingo >>

\* one iteration of batch_sync_base_indicators (orchestrator.rs:231-256):
\* RateLimiter::wait, then calculate_and_save(slug, true, true)
BaseSyncStep(r) ==
  /\ run[r].pc = "base_sync"
  /\ LET ind == base_indicators[run[r].idx + 1]
     IN  \E oracle \in Oracles(ind.slug) :
           LET res == calculate_and_save(DB, ind.slug, TRUE, TRUE, oracle, << >>)
           IN  /\ rowOrder' = res.db.rowOrder
               /\ indicators' = res.db.indicators
               /\ historical_data' = res.db.historical_data
               /\ run' = [run EXCEPT
                     ![r].waits = Append(@, BaseWaitName(ind.source)),
                     ![r].resolved = Append(@, [slug |-> ind.slug, backfill |-> TRUE,
                                                fetch_deps |-> TRUE, ok |-> res.ok]),
                     ![r].fetched = @ \o res.fetches,
                     ![r].fetch_waits = @ \o WaitStamps(Len(res.fetches), Len(run[r].waits) + 1),
                     ![r].base_success = IF res.ok THEN @ + 1 ELSE @,
                     ![r].base_fail = IF res.ok THEN @ ELSE @ + 1,
                     ![r].quota_failure = @ \/ (~res.ok /\ IsCriticalError(res.err)),
                     ![r].idx = @ + 1,
                     ![r].pc = IF run[r].idx + 1 = Len(base_indicators)
                               THEN "phase2" ELSE "base_sync"]
  /\ UNCHANGED << clock, fred_api_key, started, host, tiingo >>

\* lib.rs:183-186: the totals are summed and the command returns
SyncAllDone(r) ==
  /\ run[r].pc = "phase2"
  /\ run[r].p2 = Len(calc_indicators)
  /\ run' = [run EXCEPT ![r].ret = "ok", ![r].pc = "done"]
  /\ UNCHANGED << clock, fred_api_key, dbvars, started, host, tiingo >>

NextSyncAll ==
  \E r \in Runs : SyncAllStart(r) \/ BaseSyncStep(r) \/ Phase2Step(r) \/ SyncAllDone(r)

SpecSyncAll == InitSeeded /\ [][NextSyncAll]_vars

(***************************************************************************)
(* Properties                                                              *)
(***************************************************************************)
Canary(r) == run[r].stale[1][1]

StaleSlugs(r) == { run[r].stale[i][1] : i \in DOMAIN run[r].stale }

Marked(r) == { run[r].marked[i] : i \in DOMAIN run[r].marked }

TopLevel(r) == { run[r].resolved[i].slug : i \in DOMAIN run[r].resolved }

SameStatus(r, slug) ==
  /\ slug \in DOMAIN indicators
  /\ indicators[slug].update_status = run[r].rows0[slug].update_status
  /\ indicators[slug].error_message = run[r].rows0[slug].error_message
  /\ indicators[slug].last_updated_at = run[r].rows0[slug].last_updated_at

Markers == { "403", "429", "400", "Limit Reached" }

HasMarker(msg) == \E m \in Markers : \E i \in DOMAIN msg : msg[i] = m

\* C1: canary gating. In a run whose canary failed to resolve, the canary is
\* the only entry ever marked Updating and the only one the scheduler
\* resolved, every other indicator has the status and lastUpdatedAt it had
\* when the run started, and the run returns the fatal error.
C1_CanaryGating ==
  \A r \in Runs :
    run[r].probe = "err" =>
      /\ run[r].marked = << Canary(r) >>
      /\ Len(run[r].resolved) = 1 /\ run[r].resolved[1].slug = Canary(r)
      /\ \A slug \in (DOMAIN run[r].rows0) \ { Canary(r) } : SameStatus(r, slug)
      /\ run[r].pc \in { "canary_result", "done" }
      /\ run[r].pc = "done" => run[r].ret = "err"

\* a run ended by a failed canary with two more stale entries, one of which
\* carries the Error status of an earlier run
C1_Witness ==
  \E r \in Runs :
    /\ run[r].pc = "done" /\ run[r].probe = "err"
    /\ Len(run[r].stale) >= 3
    /\ \E i \in 2..Len(run[r].stale) :
         indicators[run[r].stale[i][1]].update_status = "error"

\* C2: quota early-stop. When a batch entry fails with a message carrying
\* one of the markers the run stops there: the earlier entries that resolved
\* are Success, the failing entry is Error, no later stale entry is marked
\* Updating or resolved by the scheduler and each keeps its prior status,
\* and the run returns success. A batch entry whose failure carries a marker
\* is never followed by the rate-limit wait of the loop.
C2_QuotaEarlyStop ==
  \A r \in Runs :
    /\ (run[r].pc = "batch_wait" /\ ~run[r].result.ok) => ~HasMarker(run[r].result.err)
    /\ run[r].stopped =>
         LET k == run[r].idx IN
         /\ k >= 2 /\ HasMarker(run[r].result.err)
         /\ run[r].pc = "done" /\ run[r].ret = "ok"
         /\ Len(run[r].resolved) = k /\ Len(run[r].marked) = k
         /\ \A i \in 1..(k - 1) :
              run[r].resolved[i].ok =>
                indicators[run[r].stale[i][1]].update_status = "success"
         /\ indicators[run[r].stale[k][1]].update_status = "error"
         /\ indicators[run[r].stale[k][1]].error_message = run[r].result.err
         /\ \A i \in (k + 1)..Len(run[r].stale) :
              /\ run[r].stale[i][1] \notin Marked(r)
              /\ run[r].stale[i][1] \notin TopLevel(r)
              /\ SameStatus(r, run[r].stale[i][1])

\* a run stopped at its third batch entry, after a batch entry that
\* resolved, with stale entries left behind it
C2_Witness ==
  \E r \in Runs :
    /\ run[r].stopped
    /\ run[r].idx >= 4 /\ run[r].idx < Len(run[r].stale)
    /\ \E i \in 2..(run[r].idx - 1) : run[r].resolved[i].ok

ConsistencySlugs(r) ==
  { run[r].resolved[i].slug :
      i \in { j \in DOMAIN run[r].resolved : ~run[r].resolved[j].fetch_deps } }

\* C3: every run whose canary resolved, a run stopped early by a quota
\* failure included, has re-resolved every Calculated indicator with
\* fetchDeps=false when it returns.
C3_ConsistencyAlwaysRuns ==
  \A r \in Runs :
    (run[r].pc = "done" /\ run[r].probe = "ok") =>
      \A i \in DOMAIN calc_indicators : calc_indicators[i].slug \in ConsistencySlugs(r)

\* C4: after a canary failure the canary is Error with the failure message,
\* the run attempted nothing else: one resolve, no consistency pass, no
\* rate-limit wait, and the stored series are those left by the canary's
\* own resolve, which wrote nothing outside the canary and its inputs.
C4_CanaryAbort ==
  \A r \in Runs :
    (run[r].pc = "done" /\ run[r].probe = "err") =>
      /\ indicators[Canary(r)].update_status = "error"
      /\ indicators[Canary(r)].error_message = run[r].result.err
      /\ run[r].result.err # NoMessage
      /\ Len(run[r].resolved) = 1
      /\ ConsistencySlugs(r) = {}
      /\ run[r].waits = << >>
      /\ run[r].calc_success + run[r].calc_fail = 0
      /\ historical_data = run[r].hist1
      /\ \A slug \in AllSlugs \ ({ Canary(r) } \cup FetchTargets(Canary(r))) :
           historical_data[slug] = run[r].hist0[slug]

\* a run aborted by a Calculated canary whose first input had been fetched
\* and stored before the second input failed
C4_Witness ==
  \E r \in Runs :
    /\ run[r].pc = "done" /\ run[r].probe = "err"
    /\ Len(run[r].stale) >= 2
    /\ historical_data # run[r].hist0

\* C5: a run that marked at least one indicator Success has emitted exactly
\* one indicators-updated signal when it returns, and a run that marked none
\* has emitted none.
C5_SignalIffSuccess ==
  \A r \in Runs :
    run[r].pc = "done" =>
      /\ run[r].update_count > 0 => run[r].emitted = 1
      /\ run[r].update_count = 0 => run[r].emitted = 0

\* C6: without the FRED_API_KEY setting the run returns success and has
\* touched nothing: no status, lastUpdatedAt or series changed, nothing was
\* marked, resolved or fetched and the rate limiter was not called.
C6_MissingCredentialNoOp ==
  \A r \in Runs :
    (run[r].pc # "idle" /\ run[r].api_key = NoSymbol) =>
      /\ run[r].pc = "done" /\ run[r].ret = "ok"
      /\ indicators = run[r].rows0
      /\ historical_data = run[r].hist0
      /\ run[r].marked = << >> /\ run[r].resolved = << >>
      /\ run[r].fetched = << >> /\ run[r].waits = << >>
      /\ run[r].emitted = 0

\* a run that returned for want of the credential while stale rows existed
C6_Witness ==
  \E r \in Runs :
    /\ run[r].pc = "done" /\ run[r].api_key = NoSymbol /\ fred_api_key = NoSymbol
    /\ get_stale_indicators(rowOrder, indicators, clock) # << >>

\* the refresh interval of a row, in seconds
RefreshSeconds(row) == ParseRefresh(row.refresh_interval) * SecondsPerMinute

\* C7: the stale set is exactly the rows never updated or updated at least a
\* refresh interval ago; with the 60-minute interval a row updated 61 or
\* exactly 60 minutes ago is in the set and one updated 59 minutes ago is not.
C7_StaleSetExact ==
  \A r \in Runs :
    run[r].pc = "alerts" =>
      /\ StaleSlugs(r) =
           { slug \in DOMAIN indicators :
               \/ indicators[slug].last_updated_at = NoTime
               \/ clock - indicators[slug].last_updated_at >= RefreshSeconds(indicators[slug]) }
      /\ \A slug \in DOMAIN indicators :
           indicators[slug].refresh_interval = "60m" =>
             /\ indicators[slug].last_updated_at \in { clock - 61 * 60, clock - 60 * 60 }
                  => slug \in StaleSlugs(r)
             /\ indicators[slug].last_updated_at = clock - 59 * 60
                  => slug \notin StaleSlugs(r)

\* the query has answered with a 60-minute row updated exactly 60 minutes
\* ago in the set, a 24-hour row updated 60 minutes ago left out, and a row
\* never updated in the set
C7_Witness ==
  \E r \in Runs :
    /\ run[r].pc = "alerts"
    /\ indicators["sector_xlk"].refresh_interval = "60m"
    /\ indicators["sector_xlk"].last_updated_at = clock - 60 * 60
    /\ "sector_xlk" \in StaleSlugs(r)
    /\ indicators["us_10y"].last_updated_at = clock - 60 * 60
    /\ "us_10y" \notin StaleSlugs(r)
    /\ indicators["yield_curve_10y_2y"].last_updated_at = NoTime
    /\ "yield_curve_10y_2y" \in StaleSlugs(r)

IsCalculated(slug) == HasMetadata(slug) /\ get_metadata(slug).source = "Calculated"

StoredInputs(db, slug) ==
  [i \in DOMAIN required_inputs(slug) |->
     IF required_inputs(slug)[i] \in DOMAIN db.indicators
     THEN SeriesRows(db.historical_data[required_inputs(slug)[i]])
     ELSE << >>]

\* C8: a resolve of a Calculated indicator with fetchDeps=false calls no
\* Fetch collaborator; its inputs are the series the Store held for its
\* dependencies when it was called (empty for a dependency the Store does
\* not hold), and the dependencies' rows and series are left as they were.
C8_NoFetchWithoutFetchDeps ==
  (host.calls > 0 /\ ~host.fetch_deps /\ IsCalculated(host.slug)) =>
    /\ host.fetched = << >>
    /\ host.ok
    /\ host.data = calculate(host.slug, StoredInputs(host.db0, host.slug)).data
    /\ \A i \in DOMAIN required_inputs(host.slug) :
         LET dep == required_inputs(host.slug)[i] IN
         /\ historical_data[dep] = host.db0.historical_data[dep]
         /\ (dep \in DOMAIN indicators) = (dep \in DOMAIN host.db0.indicators)

\* the spread was recomputed with fetchDeps=false from two stored inputs
C8_Witness ==
  /\ host.calls = 2 /\ ~host.fetch_deps
  /\ host.slug = "yield_curve_10y_2y"
  /\ host.data = << DataPoint(1, 6), DataPoint(2, 8) >>
  /\ host.fetched = << >>

NoLowercase(slug) == \A i \in DOMAIN SlugChars(slug) : SlugChars(slug)[i] \notin LowercaseLetters

NoHyphen(slug) == \A i \in DOMAIN SlugChars(slug) : SlugChars(slug)[i] # "-"

\* C9: for a slug without a registry entry a direct FRED fetch with the slug
\* as symbol is attempted if and only if the slug has no lowercase character
\* and no hyphen; every other unknown slug fails with UnknownIndicator and
\* no fetch.
C9_UnknownSlugHeuristic ==
  (host.calls > 0 /\ ~HasMetadata(host.slug)) =>
    IF NoLowercase(host.slug) /\ NoHyphen(host.slug)
    THEN /\ Len(host.fetched) = 1
         /\ host.fetched[1].provider = "Fred"
         /\ host.fetched[1].symbol = host.slug
    ELSE /\ host.fetched = << >>
         /\ ~host.ok
         /\ host.err[1] = "Unknown indicator"

CurrentSlug(r) == run[r].stale[run[r].idx][1]

UpdatingRows == { slug \in DOMAIN indicators : indicators[slug].update_status = "updating" }

Resolving(r) ==
  run[r].pc \in { "canary_resolve", "canary_result", "batch_resolve", "batch_result" }

C10_State ==
  \A r \in Runs :
    UpdatingRows = IF Resolving(r) THEN { CurrentSlug(r) } ELSE {}

C10_Step ==
  \A slug \in DOMAIN indicators :
    /\ (indicators'[slug] # indicators[slug]
          /\ indicators'[slug].update_status \in { "success", "error" })
         => indicators[slug].update_status = "updating"
    /\ (indicators'[slug].update_status = "updating"
          /\ indicators[slug].update_status # "updating")
         => \E r \in Runs : run[r].pc \in { "canary_mark", "batch_mark" }
                             /\ CurrentSlug(r) = slug

\* C10: within one run, the entry being resolved is the one row marked
\* Updating from before its resolve starts until its result is written, no
\* other row is Updating meanwhile (the result is written before the next
\* entry is marked), and a status becomes Success or Error only from
\* Updating.
C10_StatusMachine == [](C10_State) /\ [][C10_Step]_vars

\* a row that was Success from an earlier run is being resolved again
C10_Witness ==
  \E r \in Runs :
    /\ run[r].pc = "batch_result"
    /\ indicators[CurrentSlug(r)].update_status = "updating"
    /\ run[r].rows0[CurrentSlug(r)].update_status = "success"

C11_Step ==
  \A slug \in DOMAIN indicators :
    (indicators'[slug] # indicators[slug]
       /\ indicators'[slug].update_status \in { "success", "error" })
      => indicators[slug].update_status = "updating"

\* C11: with two overlapping runs on the same store, every change of an
\* indicator's status to Success or to Error is a change from Updating.
C11_OverlapStatusMachine == [][C11_Step]_vars

PhasePcs ==
  { "canary_mark", "canary_resolve", "canary_result", "canary_wait",
    "batch_mark", "batch_resolve", "batch_result", "batch_wait" }

\* C12: no single-flight guard. While one invocation is in its canary or
\* batch phase a trigger can start the other one, and an invocation that is
\* in its stale query, canary or batch phase can take its next step whatever
\* the other one is doing.
C12_NoSingleFlight ==
  \A r \in OverlapRuns :
    /\ (run[r].pc = "idle" /\ \E q \in OverlapRuns \ {r} : run[q].pc \in PhasePcs)
         => ENABLED OverlapStart(r)
    /\ run[r].pc \in PhasePcs \cup { "get_stale", "alerts" } => ENABLED PhaseStep(r)

\* both invocations computed the same stale set, both marked its first
\* entry Updating and both fetched it, and neither has written Success yet
C12_Witness ==
  /\ run[1].pc = "canary_result" /\ run[2].pc = "canary_result"
  /\ run[1].stale = run[2].stale
  /\ run[1].marked = << Canary(1) >> /\ run[2].marked = << Canary(2) >>
  /\ \A r \in OverlapRuns :
       /\ Len(run[r].fetched) = 1
       /\ run[r].fetched[1].slug = Canary(r)
       /\ run[r].result.ok
  /\ indicators[Canary(1)].update_status = "updating"

UniqueKeys ==
  \A slug \in DOMAIN historical_data :
    \A i, j \in DOMAIN historical_data[slug] :
      historical_data[slug][i].timestamp = historical_data[slug][j].timestamp => i = j

\* the number of rows stored for (slug, t)
StoredAt(series, t) == { i \in DOMAIN series : series[i].timestamp = t }

C13_Step ==
  \A r \in DOMAIN run :
    (run[r].pc \in { "canary_resolve", "batch_resolve" }
       /\ run'[r].pc \in { "canary_result", "batch_result" }
       /\ run'[r].result.ok)
      => LET slug == CurrentSlug(r)
             data == run'[r].result.data
             keys == { data[i].timestamp : i \in DOMAIN data }
         IN  /\ \A i \in DOMAIN data :
                  \E k \in DOMAIN historical_data'[slug] :
                    /\ StoredAt(historical_data'[slug], data[i].timestamp) = {k}
                    /\ historical_data'[slug][k].value = data[i].value
             /\ \A k \in DOMAIN historical_data[slug] :
                  historical_data[slug][k].timestamp \notin keys
                    => historical_data'[slug][k] = historical_data[slug][k]

\* C13: with overlapping runs that save series for the same slug, the store
\* holds at most one point per (slug, timestamp) in every reachable state,
\* and a save that commits leaves, for each of its keys, its own value.
C13_UpsertUnderOverlap == [](UniqueKeys) /\ [][C13_Step]_vars

\* both invocations saved the series of us_10y; the point stored the day
\* before was overwritten with the revised value and not duplicated
C13_Witness ==
  /\ \A r \in OverlapRuns :
       /\ run[r].pc = "canary_result" /\ Canary(r) = "us_10y" /\ run[r].result.ok
       /\ run[r].hist0["us_10y"] = << DataPoint(1, 9) >>
  /\ historical_data["us_10y"] = SeriesX

\* the value of the last point of data that has timestamp t
RECURSIVE LastValue(_, _, _)
LastValue(data, t, v) ==
  IF data = << >> THEN v
  ELSE LastValue(Tail(data), t, IF Head(data).timestamp = t THEN Head(data).value ELSE v)

\* C14: upsert idempotence of the save. After a series was saved, saving
\* it once more leaves the store as it is; each saved (slug, timestamp) is
\* stored exactly once, with the value saved last for it; the number of
\* stored points grows by the number of new timestamps only (a different
\* value for an existing timestamp replaces the value), and the points of
\* the other timestamps are left as they were.
C14_UpsertIdempotent ==
  (host.op = "fetch_fred_data" /\ host.ok) =>
    LET series == historical_data[host.slug]
        before == host.db0.historical_data[host.slug]
        keys   == { host.data[i].timestamp : i \in DOMAIN host.data }
        keys0  == { before[i].timestamp : i \in DOMAIN before }
    IN  /\ save_historical_data(DB, host.slug, host.data, "FRED", "Macro") = DB
        /\ \A t \in keys :
             \E k \in DOMAIN series :
               /\ StoredAt(series, t) = {k}
               /\ series[k].value = LastValue(host.data, t, 0)
        /\ Len(series) = Len(before) + Cardinality(keys \ keys0)
        /\ \A k \in DOMAIN before :
             before[k].timestamp \notin keys => series[k] = before[k]

\* the same point was saved twice for a timestamp the store already held
\* with another value: the second save changed nothing, the value is the
\* saved one and the series still has its two points
C14_Witness ==
  /\ host.op = "fetch_fred_data" /\ host.ok /\ host.calls = 2
  /\ host.slug = "us_market_cap"
  /\ host.data = << DataPoint(1, 10) >>
  /\ historical_data = host.db0.historical_data
  /\ historical_data["us_market_cap"] = << DataPoint(1, 10), DataPoint(2, 3000) >>

C15_Step ==
  \A slug \in DOMAIN indicators :
    /\ slug \in DOMAIN indicators'
    /\ indicators'[slug].last_updated_at # indicators[slug].last_updated_at
         => /\ indicators'[slug].update_status = "success"
            /\ indicators'[slug].last_updated_at = clock
    /\ (indicators'[slug] # indicators[slug]
          /\ indicators'[slug].update_status \in { "updating", "error" })
         => indicators'[slug].last_updated_at = indicators[slug].last_updated_at

\* C15: an indicator's lastUpdatedAt changes only in a status update whose
\* new status is Success, which sets it to the current time; marking an
\* indicator Updating or Error leaves its lastUpdatedAt as it was.
C15_LastUpdatedOnlyOnSuccess == [][C15_Step]_vars

\* a row synchronized by an earlier run was marked Updating again and then
\* Error by a later run, and still carries the time of its last success
C15_Witness ==
  \E r \in Runs :
    \E slug \in Marked(r) :
      /\ indicators[slug].update_status = "error"
      /\ run[r].rows0[slug].update_status = "success"
      /\ indicators[slug].last_updated_at # NoTime
      /\ indicators[slug].last_updated_at < clock

\* C16: every stale entry that a run did not mark Success, because its
\* resolve failed or because the run ended before reaching it, is in the
\* stale set the next run computes.
C16_UnfinishedStayStale ==
  \A r \in Runs :
    (run[r].api_key # NoSymbol /\ run[r].pc \notin { "idle", "get_stale" })
      => run[r].prev \subseteq StaleSlugs(r)

\* the next run has computed its stale set after a run that left behind an
\* entry it had marked Error and an entry it never reached
C16_Witness ==
  \E r \in Runs :
    /\ run[r].pc = "alerts"
    /\ \E slug \in run[r].prev : run[r].rows0[slug].update_status = "error"
    /\ \E slug \in run[r].prev :
         /\ run[r].rows0[slug].update_status = "idle"
         /\ run[r].rows0[slug].last_updated_at = NoTime
    /\ \E slug \in StaleSlugs(r) : slug \notin run[r].prev

C17_State ==
  \A r \in Runs :
    /\ run[r].stopped => HasMarker(run[r].result.err)
    /\ (run[r].pc = "batch_wait" /\ ~run[r].result.ok) =>
         /\ indicators[CurrentSlug(r)].update_status = "error"
         /\ indicators[CurrentSlug(r)].error_message = run[r].result.err
         /\ run[r].result.err # NoMessage
    /\ run[r].pc = "batch_mark" =>
         /\ run[r].idx >= 2 /\ run[r].idx <= Len(run[r].stale)
         /\ Len(run[r].marked) = run[r].idx - 1
         /\ Len(run[r].resolved) = run[r].idx - 1
    /\ (run[r].pc = "done" /\ run[r].probe = "ok") => run[r].ret = "ok"
    /\ (run[r].pc = "done" /\ run[r].probe = "ok" /\ ~run[r].stopped) =>
         /\ run[r].marked = [i \in DOMAIN run[r].stale |-> run[r].stale[i][1]]
         /\ \A i \in DOMAIN run[r].stale :
              /\ run[r].resolved[i].slug = run[r].stale[i][1]
              /\ run[r].resolved[i].fetch_deps

C17_Step ==
  \A r \in Runs :
    (run[r].pc = "batch_result" /\ run'[r].pc # "batch_result") =>
      /\ \A slug \in (DOMAIN indicators) \ { CurrentSlug(r) } :
           indicators'[slug] = indicators[slug]
      /\ (~run[r].result.ok /\ ~HasMarker(run[r].result.err)) =>
           /\ run'[r].pc = "batch_wait"
           /\ run'[r].idx = run[r].idx

\* C17: a batch entry whose failure carries none of the quota markers is
\* the only row the failure changes (it is marked Error with the message),
\* the run goes on with the next entry of the list, skipping none, and the
\* run returns success.
C17_LocalBatchFailure == [](C17_State) /\ [][C17_Step]_vars

\* a finished run in which a batch entry failed without a marker and the
\* entry after it was resolved and marked Success
C17_Witness ==
  \E r \in Runs :
    /\ run[r].pc = "done" /\ run[r].ret = "ok" /\ ~run[r].stopped
    /\ \E i \in 2..(Len(run[r].stale) - 1) :
         /\ ~run[r].resolved[i].ok
         /\ indicators[run[r].stale[i][1]].update_status = "error"
         /\ run[r].resolved[i + 1].ok
         /\ indicators[run[r].stale[i + 1][1]].update_status = "success"

\* the resolves of the consistency pass of an invocation, in order
ConsistencyResolves(r) ==
  LET NoFetchDeps(x) == ~x.fetch_deps IN SelectSeq(run[r].resolved, NoFetchDeps)

\* C18: when the consistency pass has run, every Calculated indicator of
\* the registry was resolved exactly once with fetchDeps=false (and
\* backfill), in registry order, whether it succeeded or failed; a failure
\* is counted and the pass goes on with the next indicator, so an
\* invocation never returns with the pass half done.
C18_ConsistencyPass ==
  \A r \in Runs :
    LET cons == ConsistencyResolves(r) IN
    /\ Len(cons) = run[r].p2
    /\ run[r].p2 <= Len(calc_indicators)
    /\ \A i \in DOMAIN cons :
         /\ cons[i].slug = calc_indicators[i].slug
         /\ cons[i].backfill
    /\ run[r].calc_success = Cardinality({ i \in DOMAIN cons : cons[i].ok })
    /\ run[r].calc_fail = Cardinality({ i \in DOMAIN cons : ~cons[i].ok })
    /\ (run[r].pc = "done" /\ run[r].p2 > 0) => run[r].p2 = Len(calc_indicators)
    /\ run[r].p2 = Len(calc_indicators) =>
         \A slug \in RegistrySlugs :
           IsCalculated(slug) =>
             Cardinality({ i \in DOMAIN cons : cons[i].slug = slug }) = 1

\* the pass is over: its first resolve failed (the inputs of the Buffett
\* indicator were not stored) and a later one succeeded from stored inputs
C18_Witness ==
  \E r \in Runs :
    /\ run[r].pc = "done"
    /\ run[r].p2 = Len(calc_indicators)
    /\ ~ConsistencyResolves(r)[1].ok
    /\ \E i \in 2..Len(calc_indicators) : ConsistencyResolves(r)[i].ok
    /\ historical_data["yield_curve_10y_2y"] = << DataPoint(1, 6), DataPoint(2, 8) >>

\* the series calculate is given by a resolve of slug: what the providers
\* answered when the dependencies are fetched, what the store held otherwise
ExpectedInputs(slug) ==
  IF host.fetch_deps
  THEN [i \in DOMAIN required_inputs(slug) |->
          CHOOSE d \in ProviderData(required_inputs(slug)[i]) : TRUE]
  ELSE StoredInputs(host.db0, slug)

\* C19: a resolve of a Calculated indicator that succeeds returns the
\* output of calculate on its dependencies' series taken in the order of
\* required_inputs, and that output is what it persisted (the only series
\* of the indicator when none was stored before); the difference of
\* X = [(1,10),(2,12)] and Y = [(1,4),(2,4)] is [(1,6),(2,8)].
C19_CalculatedResolve ==
  (host.op = "calculate_indicator" /\ IsCalculated(host.slug) /\ host.ok) =>
    /\ calculate(host.slug, ExpectedInputs(host.slug)).ok
    /\ host.data = calculate(host.slug, ExpectedInputs(host.slug)).data
    /\ \A i \in DOMAIN host.data :
         \E k \in DOMAIN historical_data[host.slug] :
           /\ StoredAt(historical_data[host.slug], host.data[i].timestamp) = {k}
           /\ historical_data[host.slug][k] = host.data[i]
    /\ host.db0.historical_data[host.slug] = EmptySeries
         => SeriesRows(historical_data[host.slug]) = host.data
    /\ (host.slug = "yield_curve_10y_2y"
          /\ ExpectedInputs(host.slug) = << SeriesX, SeriesY >>)
         => host.data = << DataPoint(1, 6), DataPoint(2, 8) >>
    /\ host.fetch_deps =>
         [i \in DOMAIN host.fetched |-> host.fetched[i].slug] = required_inputs(host.slug)

\* the spread was resolved with its two inputs fetched in the declared
\* order, and its series persisted
C19_Witness ==
  /\ host.op = "calculate_indicator" /\ host.ok /\ host.fetch_deps
  /\ host.slug = "yield_curve_10y_2y"
  /\ Len(host.fetched) = 2
  /\ host.fetched[1].slug = "us_10y" /\ host.fetched[2].slug = "us_2y"
  /\ host.data = << DataPoint(1, 6), DataPoint(2, 8) >>
  /\ historical_data["yield_curve_10y_2y"] = << DataPoint(1, 6), DataPoint(2, 8) >>

\* C20: every slug returned by required_inputs of a registered calculator
\* is a key of the registry: whenever the calculator of an indicator was
\* looked up for a resolve, get_metadata has an entry for each dependency
\* it declares.
C20_DependenciesRegistered ==
  (host.op = "calculate_indicator" /\ HasCalculator(host.slug)) =>
    \A i \in DOMAIN required_inputs(host.slug) :
      HasMetadata(required_inputs(host.slug)[i])

\* C21: within one invocation, between any two fetcher calls made to the
\* same provider a rate-limiter wait has completed, the calls made for the
\* dependencies of a Calculated indicator resolved with fetchDeps=true
\* included.
C21_WaitBetweenFetches ==
  \A r \in Runs :
    \A i, j \in DOMAIN run[r].fetched :
      (i < j /\ run[r].fetched[i].provider = run[r].fetched[j].provider)
        => run[r].fetch_waits[i] < run[r].fetch_waits[j]

\* the rate-limiter waits of an invocation (the pauses between chunks are
\* plain sleeps)
EntryWaits(r) ==
  LET IsWait(w) == w # "chunk pause" IN SelectSeq(run[r].waits, IsWait)

\* the top-level resolves of an invocation, in order
TopLevelResolves(r) ==
  LET FetchDeps(x) == x.fetch_deps IN SelectSeq(run[r].resolved, FetchDeps)

\* the sources of the first n stale entries
SourcesUpTo(r, n) == [k \in 1..n |-> run[r].stale[k][2]]

\* C22: the stale entries of a run are resolved one at a time in the order
\* of the stale list: an entry is marked Updating only when every entry
\* before it has been resolved, and the rate-limiter wait for the source of
\* each of them has completed; the entry that triggers the quota stop is
\* followed by no wait.
C22_SequentialWithWaits ==
  \A r \in Runs :
    LET top == TopLevelResolves(r) IN
    /\ Len(run[r].marked) <= Len(run[r].stale)
    /\ \A i \in DOMAIN run[r].marked : run[r].marked[i] = run[r].stale[i][1]
    /\ \A i \in DOMAIN top : top[i].slug = run[r].stale[i][1]
    /\ Len(top) = IF run[r].pc \in { "canary_resolve", "batch_resolve" }
                  THEN Len(run[r].marked) - 1 ELSE Len(run[r].marked)
    /\ run[r].pc \in { "batch_mark", "batch_resolve", "batch_result" } =>
         /\ EntryWaits(r) = SourcesUpTo(r, run[r].idx - 1)
         /\ Len(run[r].marked) =
              IF run[r].pc = "batch_mark" THEN run[r].idx - 1 ELSE run[r].idx
    /\ run[r].stopped =>
         /\ run[r].pc = "done"
         /\ ~top[Len(top)].ok
         /\ EntryWaits(r) = SourcesUpTo(r, Len(top) - 1)
    /\ (run[r].pc \in { "phase2", "done" } /\ run[r].probe = "ok" /\ ~run[r].stopped) =>
         EntryWaits(r) = SourcesUpTo(r, Len(run[r].stale))

\* a run stopped by a quota failure at its fourth entry or later, after an
\* entry that failed ordinarily: a wait followed each of the entries before
\* the last, and none followed the last
C22_Witness ==
  \E r \in Runs :
    /\ run[r].stopped
    /\ Len(run[r].marked) >= 4
    /\ \E i \in 2..(Len(run[r].marked) - 1) : ~TopLevelResolves(r)[i].ok
    /\ Len(EntryWaits(r)) = Len(run[r].marked) - 1
    /\ EntryWaits(r)[1] = "Calculated" /\ EntryWaits(r)[3] = "FRED"

\* a top-level resolve of slug calls the fetcher of slug itself
SelfFetch(slug) ==
  IF HasMetadata(slug) THEN get_metadata(slug).source \in FetchableSources
  ELSE ~SkipsUnknown(slug)

\* the number of fetcher calls an invocation made for slug
FetchCount(r, slug) ==
  Cardinality({ i \in DOMAIN run[r].fetched : run[r].fetched[i].slug = slug })

\* the top-level resolves of an invocation that refer to x: the resolves of
\* x itself and those of a Calculated indicator that declares x
References(r, x) ==
  { i \in DOMAIN TopLevelResolves(r) :
      LET slug == TopLevelResolves(r)[i].slug IN
      \/ slug = x /\ SelfFetch(x)
      \/ /\ IsCalculated(slug) /\ HasCalculator(slug)
         /\ \E k \in DOMAIN required_inputs(slug) : required_inputs(slug)[k] = x }

\* the references a resolve got to: the dependencies after one that failed
\* are not asked for
ReachedReferences(r, x) ==
  { i \in References(r, x) :
      LET slug == TopLevelResolves(r)[i].slug IN
      \/ slug = x
      \/ TopLevelResolves(r)[i].ok
      \/ required_inputs(slug)[1] = x }

IsExternalFetch(slug) ==
  HasMetadata(slug) /\ get_metadata(slug).source \in FetchableSources

\* C25: a resolve of an indicator fetched from a provider makes one call to
\* that provider's fetcher, with the symbol override of the registry entry
\* or with the slug when the entry has none (DGS10 for us_10y,
\* crypto_fear_greed for crypto_fear_greed); when the fetch fails the
\* resolve returns an error and the store is as it was; when it succeeds
\* the resolve returns the fetched series and every point of it is in the
\* stored series of the slug.
C25_ExternalFetch ==
  (host.op = "calculate_indicator" /\ IsExternalFetch(host.slug)) =>
    LET meta == get_metadata(host.slug) IN
    /\ Len(host.fetched) = 1
    /\ host.fetched[1].provider = meta.source
    /\ host.fetched[1].symbol =
         (IF meta.source_symbol = NoSymbol THEN host.slug ELSE meta.source_symbol)
    /\ host.slug = "us_10y" => host.fetched[1].symbol = "DGS10"
    /\ host.slug = "sector_xlk" => host.fetched[1].symbol = "xlk"
    /\ host.slug = "crypto_fear_greed" => host.fetched[1].symbol = "crypto_fear_greed"
    /\ ~host.ok =>
         /\ host.err # NoMessage
         /\ host.data = << >>
         /\ historical_data = host.db0.historical_data
         /\ indicators = host.db0.indicators
    /\ host.ok =>
         /\ host.data \in ProviderData(host.slug)
         /\ \A i \in DOMAIN host.data :
              \E k \in DOMAIN historical_data[host.slug] :
                /\ StoredAt(historical_data[host.slug], host.data[i].timestamp) = {k}
                /\ historical_data[host.slug][k] = host.data[i]
         /\ \A slug \in AllSlugs \ { host.slug } :
              historical_data[slug] = host.db0.historical_data[slug]

\* us_10y was resolved: the fetcher was asked for DGS10, and the two points
\* it returned replaced and extended the one point stored before
C25_Witness ==
  /\ host.op = "calculate_indicator" /\ host.slug = "us_10y" /\ host.ok
  /\ host.fetched[1].symbol = "DGS10"
  /\ host.db0.historical_data["us_10y"] = << DataPoint(1, 9) >>
  /\ host.data = SeriesX
  /\ historical_data["us_10y"] = << DataPoint(1, 10), DataPoint(2, 12) >>

\* C27: with the credential present and no stale indicator, the run checks
\* the alerts and returns success: it marks nothing Updating, resolves and
\* fetches nothing, waits for no provider, does not run the consistency
\* pass, emits no signal and leaves the store as it found it.
C27_EmptyStaleSet ==
  \A r \in Runs :
    (run[r].api_key # NoSymbol /\ run[r].stale = << >>
       /\ run[r].pc \notin { "idle", "get_stale", "alerts" }) =>
      /\ run[r].pc = "done" /\ run[r].ret = "ok"
      /\ run[r].alerts
      /\ run[r].marked = << >>
      /\ run[r].resolved = << >>
      /\ run[r].fetched = << >>
      /\ run[r].waits = << >>
      /\ run[r].p2 = 0 /\ run[r].calc_success + run[r].calc_fail = 0
      /\ run[r].update_count = 0 /\ run[r].emitted = 0
      /\ indicators = run[r].rows0
      /\ historical_data = run[r].hist0

\* the second run of a session found nothing stale, the first having
\* synchronized every stale indicator, and returned after the alerts
C27_Witness ==
  \E r \in Runs :
    /\ started = 2
    /\ run[r].pc = "done" /\ run[r].api_key # NoSymbol
    /\ run[r].stale = << >>
    /\ run[r].alerts
    /\ \A slug \in RegistrySlugs : indicators[slug].update_status = "success"

C28_Step ==
  /\ DOMAIN indicators \subseteq DOMAIN indicators'
  /\ \A slug \in DOMAIN indicators :
       /\ indicators'[slug].refresh_interval = indicators[slug].refresh_interval
       /\ indicators'[slug].source = indicators[slug].source
       /\ indicators'[slug].category = indicators[slug].category

\* C28: no step of a run, of a resolve or of the consistency pass changes
\* the refresh interval or the source (or the category) of an indicator
\* that exists, and none removes an indicator: only the status fields and
\* the stored series change.
C28_CadenceAndSourceFixed == [][C28_Step]_vars

\* a finished run that changed statuses and stored series, and through
\* which a row was created for a dependency without one, while every
\* registry row kept the source and the refresh interval of the seeder
C28_Witness ==
  \E r \in Runs :
    /\ run[r].pc = "done"
    /\ \E slug \in RegistrySlugs :
         indicators[slug].update_status # run[r].rows0[slug].update_status
    /\ \E slug \in RegistrySlugs : historical_data[slug] # run[r].hist0[slug]
    /\ DOMAIN indicators # RegistrySlugs
    /\ \A slug \in RegistrySlugs :
         /\ indicators[slug].source = seed_registry[slug].source
         /\ indicators[slug].refresh_interval = seed_registry[slug].refresh_interval

\* the indicators batch_sync_base_indicators is to synchronize
BaseSlugs ==
  { slug \in RegistrySlugs :
      /\ get_metadata(slug).category # "Internal"
      /\ get_metadata(slug).source \notin { "Calculated", "Manual" } }

\* C29: batch_sync_base_indicators resolves every available indicator that
\* is neither Calculated nor Manual exactly once, with backfill and
\* fetchDeps set, after a rate-limiter wait made for it; a failure, with a
\* quota marker or without, is counted and the loop goes on; the two counts
\* it returns add up to the number of these indicators.
C29_BatchSyncBase ==
  \A r \in Runs :
    LET base == TopLevelResolves(r) IN
    /\ Len(base) <= Len(base_indicators)
    /\ run[r].pc = "base_sync" => Len(base) < Len(base_indicators)
    /\ \A i \in DOMAIN base :
         /\ base[i].slug = base_indicators[i].slug
         /\ base[i].backfill /\ base[i].fetch_deps
    /\ run[r].waits = [i \in DOMAIN base |-> BaseWaitName(base_indicators[i].source)]
    /\ Len(run[r].fetched) = Len(base)
    /\ \A k \in DOMAIN run[r].fetched :
         /\ run[r].fetched[k].slug = base[k].slug
         /\ run[r].fetched[k].backfill
         /\ run[r].fetch_waits[k] = k
    /\ run[r].base_success = Cardinality({ i \in DOMAIN base : base[i].ok })
    /\ run[r].base_fail = Cardinality({ i \in DOMAIN base : ~base[i].ok })
    /\ run[r].quota_failure => run[r].base_fail > 0
    /\ run[r].pc \in { "phase2", "done" } =>
         /\ run[r].base_success + run[r].base_fail = Cardinality(BaseSlugs)
         /\ \A slug \in AllSlugs :
              Cardinality({ i \in DOMAIN base : base[i].slug = slug })
                = IF slug \in BaseSlugs THEN 1 ELSE 0

\* the first base indicator failed with a quota marker, and the five
\* others were still resolved, with success
C29_Witness ==
  \E r \in Runs :
    /\ run[r].pc = "phase2"
    /\ run[r].quota_failure
    /\ ~TopLevelResolves(r)[1].ok
    /\ Len(TopLevelResolves(r)) = Len(base_indicators)
    /\ run[r].base_fail = 1
    /\ run[r].base_success = 5

\* C30: the delay of RateLimiter::wait depends on the provider name alone,
\* whatever its letter case and whatever was waited for before: 1500 to
\* 2999 ms for FRED, 1000 to 1999 ms for Tiingo, 100 ms for Binance and
\* Upbit, and 100 ms for any other name.
C30_WaitPolicy ==
  /\ host.op = "wait" =>
    /\ host.slug \in { "FRED", "Fred", "fred" }
         => (host.delay >= 1500 /\ host.delay < 3000)
    /\ host.slug \in { "Tiingo", "TIINGO", "tiingo" }
         => (host.delay >= 1000 /\ host.delay < 2000)
    /\ host.slug \in { "Binance", "BINANCE", "Upbit", "upbit" } => host.delay = 100
    /\ host.slug \in { "Calculated", "Manual", "Alternative", "Default" }
         => host.delay = 100
  /\ host.calls < MaxHostCalls =>
    /\ ENABLED WaitFor("FRED", 1500) /\ ENABLED WaitFor("fred", 2999)
    /\ ~ENABLED WaitFor("Fred", 3000) /\ ~ENABLED WaitFor("FRED", 100)
    /\ ENABLED WaitFor("Tiingo", 1000) /\ ENABLED WaitFor("TIINGO", 1999)
    /\ ~ENABLED WaitFor("tiingo", 2000) /\ ~ENABLED WaitFor("Tiingo", 100)
    /\ ENABLED WaitFor("upbit", 100) /\ ENABLED WaitFor("Binance", 100)
    /\ ENABLED WaitFor("Calculated", 100) /\ ~ENABLED WaitFor("Manual", 1500)

\* a wait for Tiingo, spelled as the source column spells it, slept for the
\* longest duration of its range right after a wait for FRED
C30_Witness ==
  /\ host.op = "wait" /\ host.calls = 2
  /\ host.before = "FRED"
  /\ host.slug = "Tiingo"
  /\ host.delay = 1999

(***************************************************************************)
(* The registry asked directly: the listing (orchestrator.rs:220, 270;     *)
(* llm/prompt.rs:24) and the lookup by slug (orchestrator.rs:28;           *)
(* lib.rs:25)                                                              *)
(***************************************************************************)
\* a caller takes Registry::get_available_indicators()
ListAvailable ==
  /\ host.calls < MaxHostCalls
  /\ host' = [NoHost EXCEPT !.calls = host.calls + 1,
                            !.op = "get_available_indicators",
                            !.data = get_available_indicators,
                            !.before = host.slug]
  /\ UNCHANGED << clock, fred_api_key, dbvars, started, run, tiingo >>

\* a caller takes Registry::get_metadata(slug): Some(entry) or None
GetSpec ==
  /\ host.calls < MaxHostCalls
  /\ \E slug \in AllSlugs :
       host' = [NoHost EXCEPT !.calls = host.calls + 1,
                              !.op = "get_metadata",
                              !.slug = slug,
                              !.ok = HasMetadata(slug),
                              !.data = IF HasMetadata(slug)
                                       THEN << get_metadata(slug) >> ELSE << >>,
                              !.before = host.slug]
  /\ UNCHANGED << clock, fred_api_key, dbvars, started, run, tiingo >>

NextRegistry == ListAvailable \/ GetSpec

SpecRegistry == Init /\ [][NextRegistry]_vars

Listed == { host.data[j] : j \in DOMAIN host.data }

\* C31: the listing holds exactly the registry entries whose category is not
\* Internal, each once and in table order, while the lookup by slug answers
\* with the entry of every registry slug, the Internal ones included (and
\* with nothing for a slug that is no registry key).
C31_ListedAndResolvable ==
  /\ host.op = "get_available_indicators" =>
       /\ Listed = { INDICATORS[i] : i \in { k \in DOMAIN INDICATORS :
                                               INDICATORS[k].category # "Internal" } }
       /\ Cardinality(Listed) = Len(host.data)
       /\ \A j, k \in DOMAIN host.data :
            j < k => \E a, b \in DOMAIN INDICATORS :
                       a < b /\ INDICATORS[a] = host.data[j] /\ INDICATORS[b] = host.data[k]
  /\ host.op = "get_metadata" =>
       /\ host.ok = (host.slug \in RegistrySlugs)
       /\ host.ok => /\ Len(host.data) = 1
                     /\ host.data[1].slug = host.slug
                     /\ \E i \in DOMAIN INDICATORS : INDICATORS[i] = host.data[1]
       /\ ~host.ok => host.data = << >>

\* after a listing that left sector_xlk out, the lookup of sector_xlk
\* answered with its Internal entry
C31_Witness ==
  /\ host.calls = 2 /\ host.op = "get_metadata" /\ host.before = NoSymbol
  /\ host.slug = "sector_xlk" /\ host.ok
  /\ host.data[1].category = "Internal"
  /\ host.data[1] \notin { get_available_indicators[j] : j \in DOMAIN get_available_indicators }

FetchedSlugs(r) == { run[r].fetched[i].slug : i \in DOMAIN run[r].fetched }

\* the dependencies the pass over the Calculated indicators reads
Phase2Reads ==
  UNION { { required_inputs(calc_indicators[i].slug)[k] :
              k \in DOMAIN required_inputs(calc_indicators[i].slug) } :
          i \in DOMAIN calc_indicators }

\* C32: in a sync-all started on an empty store in which every fetch of the
\* base pass succeeded, every dependency series the pass over the Calculated
\* indicators reads was fetched and stored by the base pass, so that no
\* Calculated indicator is computed from an empty or missing series.
C32_Phase2ReadsPhase1 ==
  \A r \in Runs :
    (started = 1 /\ run[r].pc \in { "phase2", "done" } /\ run[r].base_fail = 0
       /\ run[r].idx = Len(base_indicators)) =>
      \A dep \in Phase2Reads :
        /\ dep \in FetchedSlugs(r)
        /\ get_historical_data(DB, dep) # << >>

\* the entries some invocation has marked and not yet written the result of
InFlight == { CurrentSlug(r) : r \in { q \in DOMAIN run : Resolving(q) } }

\* C33: with overlapping invocations in which every resolve and status
\* write returns, a row is Updating only while an invocation that marked it
\* has not yet written its result, so once all the invocations have returned
\* no indicator is Updating.
C33_NoUpdatingLeft ==
  /\ UpdatingRows \subseteq InFlight
  /\ (\A r \in DOMAIN run : run[r].pc \in { "idle", "done" }) => UpdatingRows = {}

\* both invocations computed the same two-entry stale set (neither had
\* written a result when the other asked), both marked and resolved both
\* entries, and both have returned
C33_Witness ==
  /\ \A r \in OverlapRuns :
       /\ run[r].pc = "done"
       /\ Len(run[r].stale) = 2
       /\ Len(run[r].marked) = 2
  /\ run[1].stale = run[2].stale
  /\ UpdatingRows = {}

(***************************************************************************)
(* sync_all_history on a store left by a scheduler run: a day ago the run  *)
(* resolved every stale entry but financial_stress, whose fetch failed in  *)
(* the batch phase, and then ran the consistency pass.                     *)
(***************************************************************************)
\* the error the batch phase wrote for financial_stress
LeftError ==
  << "Fetch failed for", "STLFSI4", "STLFSI4",
     "FRED API Error:", "500", "Internal Server Error" >>

LeftRows ==
  [slug \in RegistrySlugs |->
     IF slug = "financial_stress"
     THEN [seed_registry[slug] EXCEPT !.update_status = "error",
                                      !.error_message = LeftError]
     ELSE [seed_registry[slug] EXCEPT !.update_status = "success",
                                      !.last_updated_at = 0]]

LeftSeries ==
  [slug \in AllSlugs |->
     CASE slug = "us_10y"             -> UpsertAll(StartSeries[slug], SeriesX)
       [] slug = "us_2y"              -> UpsertAll(EmptySeries, SeriesY)
       [] slug = "sector_xlk"         -> UpsertAll(EmptySeries, SeriesX)
       [] slug = "yield_curve_10y_2y" ->
            UpsertAll(EmptySeries, calculate_spread(<< SeriesX, SeriesY >>).data)
       [] slug = "yield_curve_10y_3m" ->
            UpsertAll(StartSeries[slug], calculate_spread(<< SeriesX, SeriesX >>).data)
       [] OTHER                       -> StartSeries[slug]]

InitLeft ==
  /\ clock = OverlapNow
  /\ fred_api_key = "key"
  /\ rowOrder = [i \in DOMAIN INDICATORS |-> INDICATORS[i].slug]
  /\ indicators = LeftRows
  /\ historical_data = LeftSeries
  /\ started = 0
  /\ run = [r \in Runs |-> IdleRun]
  /\ host = NoHost
  /\ tiingo = NoTiingo

SpecSyncAgain == InitLeft /\ [][NextSyncAll]_vars

SyncStatus(row) ==
  << row.update_status, row.error_message, row.last_updated_at >>

\* a step in which a batch helper resolved an entry: the helpers are the
\* callers that resolve with backfill
HelperStep(r) ==
  /\ Len(run'[r].resolved) = Len(run[r].resolved) + 1
  /\ run'[r].resolved[Len(run'[r].resolved)].backfill

C34_Step ==
  \A r \in DOMAIN run :
    HelperStep(r) =>
      /\ DOMAIN indicators' = DOMAIN indicators
      /\ \A slug \in DOMAIN indicators :
           SyncStatus(indicators'[slug]) = SyncStatus(indicators[slug])

C34_State ==
  \A r \in DOMAIN run :
    run[r].pc # "idle" =>
      /\ \A slug \in DOMAIN indicators : SameStatus(r, slug)
      /\ get_stale_indicators(rowOrder, indicators, clock)
           = get_stale_indicators(rowOrder, run[r].rows0, clock)

\* C34: the pass over the Calculated indicators (the consistency phase) and
\* the pass over the base indicators leave the status, the error message
\* and last_updated_at of every indicator as they were: an indicator fetched
\* or recomputed only by them is as stale afterwards as before, and one left
\* Error by the batch phase is still Error after its recomputation succeeded.
C34_HelpersLeaveStatus == [](C34_State) /\ [][C34_Step]_vars

\* the command has returned: us_10y was fetched and stored again and is
\* still stale, financial_stress was recomputed with success and still
\* carries the error the batch phase wrote
C34_Witness ==
  \E r \in Runs :
    /\ run[r].pc = "done" /\ run[r].base_fail = 0 /\ run[r].calc_fail = 0
    /\ "us_10y" \in FetchedSlugs(r)
    /\ IsStaleRow(indicators["us_10y"], clock)
    /\ \E i \in DOMAIN run[r].resolved :
         /\ run[r].resolved[i].slug = "financial_stress"
         /\ ~run[r].resolved[i].fetch_deps /\ run[r].resolved[i].ok
    /\ indicators["financial_stress"].update_status = "error"
    /\ indicators["financial_stress"].error_message = LeftError
    /\ IsStaleRow(indicators["financial_stress"], clock)

C36_RowsAreRegistrySlugs ==
  /\ DOMAIN indicators = RegistrySlugs
  /\ \A i \in DOMAIN rowOrder : rowOrder[i] \in RegistrySlugs
  /\ \A r \in DOMAIN run : StaleSlugs(r) \subseteq RegistrySlugs

(***************************************************************************)
(* core/timeseries.rs align_series and the spread of yield_curve.rs,       *)
(* applied to two series of at most MaxPoints points each, in any order    *)
(* and with repeated timestamps                                            *)
(***************************************************************************)
AlignTimes == { 1, 2, 3 }

ValuesA == { 10, 12 }

ValuesB == { 3, 4 }

SeriesOver(values) ==
  UNION { [1..n -> { DataPoint(t, v) : t \in AlignTimes, v \in values }] :
          n \in 0..MaxPoints }

InitAlign ==
  /\ clock = 0
  /\ fred_api_key = NoSymbol
  /\ rowOrder = [i \in DOMAIN INDICATORS |-> INDICATORS[i].slug]
  /\ indicators = StartRows
  /\ historical_data = StartSeries
  /\ started = 0
  /\ run = [r \in Runs |-> IdleRun]
  /\ \E series_a \in SeriesOver(ValuesA), series_b \in SeriesOver(ValuesB) :
       host = [NoHost EXCEPT !.inputs = << series_a, series_b >>]
  /\ tiingo = NoTiingo

\* a calculator calls align_series(series_a, series_b, method)
Align ==
  /\ host.op = "none"
  /\ host' = [host EXCEPT !.calls = 1, !.op = "align_series",
                          !.data = align_series(host.inputs[1], host.inputs[2])]
  /\ UNCHANGED << clock, fred_api_key, dbvars, started, run, tiingo >>

\* a yield-curve calculator calls calculate_spread(inputs, name_a, name_b)
Spread ==
  /\ host.op = "none"
  /\ LET calc == calculate_spread(host.inputs)
     IN  host' = [host EXCEPT !.calls = 1, !.op = "calculate_spread",
                              !.ok = calc.ok, !.data = calc.data, !.err = calc.err]
  /\ UNCHANGED << clock, fred_api_key, dbvars, started, run, tiingo >>

NextAlign == Align \/ Spread

SpecAlign == InitAlign /\ [][NextAlign]_vars

TimesOf(series) == { series[i].timestamp : i \in DOMAIN series }

\* C37: the spread is an inner join: its output has a point at t only if
\* both input series have a point at exactly t, and the value there is
\* a(t) - b(t).
C37_SpreadInnerJoin ==
  host.op = "calculate_spread" =>
    \A i \in DOMAIN host.data :
      LET t == host.data[i].timestamp
      IN  /\ t \in TimesOf(host.inputs[1])
          /\ t \in TimesOf(host.inputs[2])
          /\ host.data[i].value =
               LastValue(host.inputs[1], t, 0) - LastValue(host.inputs[2], t, 0)

Maximum(S) == CHOOSE x \in S : \A y \in S : y <= x

\* the timestamp of the latest point of series at or before t
LatestAtOrBefore(series, t) == Maximum({ u \in TimesOf(series) : u <= t })

\* C38: align_series(A, B) fills B forward onto A: one row for each distinct
\* timestamp t of A at or before which B has a point, in ascending order of
\* t, with A's value at t and the value of B's latest point at or before t;
\* a timestamp of A before B's first point has no row, and no row has a
\* timestamp that only B has.
C38_ForwardFill ==
  host.op = "align_series" =>
    LET A   == host.inputs[1]
        B   == host.inputs[2]
        out == host.data
    IN  /\ { out[i][1] : i \in DOMAIN out } =
             { t \in TimesOf(A) : \E u \in TimesOf(B) : u <= t }
        /\ \A i \in DOMAIN out : i < Len(out) => out[i][1] < out[i + 1][1]
        /\ \A i \in DOMAIN out :
             /\ out[i][2] = LastValue(A, out[i][1], 0)
             /\ out[i][3] = LastValue(B, LatestAtOrBefore(B, out[i][1]), 0)

\* A has points at 1 and 3, B one point at 2: the only row is the one of 3,
\* with B's value of 2
C38_Witness ==
  /\ host.op = "align_series"
  /\ host.inputs = << << DataPoint(1, 10), DataPoint(3, 12) >>, << DataPoint(2, 4) >> >>
  /\ host.data = << << 3, 12, 4 >> >>

(***************************************************************************)
(* fetcher/tiingo.rs fetch_data and the usage counters of db.rs: two       *)
(* callers fetch from Tiingo on the same pool (two invocations of          *)
(* run_pending_updates, or one and a command of the host), within one hour *)
(* key and one day key.  Each query is one step.  The settings rows are    *)
(* keyed by "hour" and "day" for TIINGO_USAGE_<date>_<hour> and            *)
(* TIINGO_USAGE_<date>; a key has at most one row.                         *)
(***************************************************************************)
\* the usage the store holds for the hour when the callers start: no row yet,
\* or a count close to the limit
HourStarts == (HourLimit - 2)..HourLimit

DayStarts == (DayLimit - 2)..DayLimit

InitTiingo ==
  /\ clock = 0
  /\ fred_api_key = "key"
  /\ rowOrder = [i \in DOMAIN INDICATORS |-> INDICATORS[i].slug]
  /\ indicators = StartRows
  /\ historical_data = StartSeries
  /\ started = 0
  /\ run = [r \in Runs |-> IdleRun]
  /\ host = NoHost
  /\ \E d \in DayStarts :
       \/ tiingo = [NoTiingo EXCEPT !.settings = ("day" :> d),
                                    !.sent = [hour |-> 0, day |-> d]]
       \/ \E h \in HourStarts :
            tiingo = [NoTiingo EXCEPT !.settings = ("hour" :> h) @@ ("day" :> d),
                                      !.sent = [hour |-> h, day |-> d]]

\* db::check_api_limit
check_api_limit(settings, key, limit) ==
  IF key \in DOMAIN settings THEN settings[key] < limit ELSE TRUE

\* tiingo.rs:59-62: the hourly check
TiingoCheckHour(p) ==
  /\ tiingo.fetch[p].pc = "idle"
  /\ tiingo.fetch[p].calls < MaxFetches
  /\ tiingo' =
       IF check_api_limit(tiingo.settings, "hour", HourLimit)
       THEN [tiingo EXCEPT !.fetch[p].pc = "check_day"]
       ELSE [tiingo EXCEPT !.fetch[p].calls = @ + 1, !.fetch[p].refused = @ + 1]
  /\ UNCHANGED << clock, fred_api_key, dbvars, started, run, host >>

\* tiingo.rs:63-66: the daily check
TiingoCheckDay(p) ==
  /\ tiingo.fetch[p].pc = "check_day"
  /\ tiingo' =
       IF check_api_limit(tiingo.settings, "day", DayLimit)
       THEN [tiingo EXCEPT !.fetch[p].pc = "send"]
       ELSE [tiingo EXCEPT !.fetch[p].pc = "idle", !.fetch[p].calls = @ + 1,
                           !.fetch[p].refused = @ + 1]
  /\ UNCHANGED << clock, fred_api_key, dbvars, started, run, host >>

\* tiingo.rs:109: the request is sent
TiingoSend(p) ==
  /\ tiingo.fetch[p].pc = "send"
  /\ tiingo' = [tiingo EXCEPT !.sent.hour = @ + 1, !.sent.day = @ + 1,
                              !.fetch[p].pc = "hour_select"]
  /\ UNCHANGED << clock, fred_api_key, dbvars, started, run, host >>

UsageKey(pc) == IF pc \in { "hour_select", "hour_write" } THEN "hour" ELSE "day"

\* db.rs:394-397: the SELECT of increment_api_usage
IncrementSelect(p) ==
  /\ tiingo.fetch[p].pc \in { "hour_select", "day_select" }
  /\ LET key == UsageKey(tiingo.fetch[p].pc)
     IN  tiingo' = [tiingo EXCEPT
           !.fetch[p].exists = key \in DOMAIN tiingo.settings,
           !.fetch[p].count = IF key \in DOMAIN tiingo.settings
                              THEN tiingo.settings[key] ELSE 0,
           !.fetch[p].pc = IF key = "hour" THEN "hour_write" ELSE "day_write"]
  /\ UNCHANGED << clock, fred_api_key, dbvars, started, run, host >>

\* db.rs:399-413: the UPDATE with the count read, or the INSERT of 1, whose
\* failure on a key that has a row by now is dropped by the caller
increment_write(settings, key, exists, count) ==
  IF exists
  THEN IF key \in DOMAIN settings THEN [settings EXCEPT ![key] = count + 1] ELSE settings
  ELSE IF key \in DOMAIN settings THEN settings ELSE settings @@ (key :> 1)

\* the write of increment_api_usage; after the day's counter, fetch_data
\* goes on to the response and returns
IncrementWrite(p) ==
  /\ tiingo.fetch[p].pc \in { "hour_write", "day_write" }
  /\ LET key == UsageKey(tiingo.fetch[p].pc)
         f   == tiingo.fetch[p]
     IN  tiingo' = [tiingo EXCEPT
           !.settings = increment_write(tiingo.settings, key, f.exists, f.count),
           !.fetch[p].pc = IF key = "hour" THEN "day_select" ELSE "idle",
           !.fetch[p].calls = IF key = "hour" THEN @ ELSE @ + 1]
  /\ UNCHANGED << clock, fred_api_key, dbvars, started, run, host >>

NextTiingo ==
  \E p \in Fetchers :
    \/ TiingoCheckHour(p)
    \/ TiingoCheckDay(p)
    \/ TiingoSend(p)
    \/ IncrementSelect(p)
    \/ IncrementWrite(p)

SpecTiingo == InitTiingo /\ [][NextTiingo]_vars

Stored(key) == IF key \in DOMAIN tiingo.settings THEN tiingo.settings[key] ELSE 0

\* C39: however the Tiingo fetches of overlapping runs interleave, at most
\* 450 requests are sent within one hour key and at most 950 within one day
\* key, and when no fetch is under way the stored usage counters equal the
\* numbers of requests sent.
C39_UsageGuard ==
  /\ tiingo.sent.hour <= HourLimit
  /\ tiingo.sent.day <= DayLimit
  /\ (\A p \in Fetchers : tiingo.fetch[p].pc = "idle") =>
       /\ Stored("hour") = tiingo.sent.hour
       /\ Stored("day") = tiingo.sent.day

====
